---------------------------- MODULE Spec2Model ----------------------------
(***************************************************************************)
(* TreadSight: the weather risk escalator, the health score, the wear      *)
(* timeline projector, the time-travel hook and the image deterioration    *)
(* pipeline, as state machines.                                            *)
(*                                                                         *)
(* JavaScript numbers are modelled as exact rationals [n, d] (d > 0, in    *)
(* lowest terms); Math.round, Math.max, Math.min are computed as the       *)
(* language defines them.  Pure functions are operators; each is driven by *)
(* a call harness: `args` holds the inputs drawn at Init and `ret` the     *)
(* value the call returned.                                                *)
(***************************************************************************)
EXTENDS Integers, Sequences, FiniteSets, TLC

VARIABLES
    args, ret,              \* the call harness of the pure functions
    analysis,               \* the results page: the analysis handed to the hook
    hook_t, hook_weatherMode, hook_skipRotations, hook_aggressiveDriving,
                            \* useTimeTravelState: the useState cells
    hook_adjustedWearRate, hook_totalMonths, hook_monthlyWearRate, hook_state,
                            \* useTimeTravelState: the useMemo cells
    today,                  \* the reading of the browser's clock
    canvas,                 \* TireViewer: the bitmap of the canvas
    imageRef,               \* TireViewer: the image the canvas is drawn from
    options,                \* the DeteriorationOptions of the last call, or Null
    calls,                  \* calls of applyDeterioration since the canvas was cleared
    viewer,                 \* TireViewer: its props and the callbacks it has pending
    resultsPage,            \* ResultsPage: the explanation and the requests in flight
    scanPage                \* ScanPage: its state, its hidden canvas, its pending loads

pureVars == <<args, ret>>

hookVars == <<analysis, hook_t, hook_weatherMode, hook_skipRotations,
              hook_aggressiveDriving, hook_adjustedWearRate, hook_totalMonths,
              hook_monthlyWearRate, hook_state, today>>

canvasVars == <<canvas, imageRef, options, calls>>

pageVars == <<viewer, resultsPage, scanPage>>

vars == <<pureVars, hookVars, canvasVars, pageVars>>

NoRet == [fn |-> "none"]

NoCall == [fn |-> "none"]

Null == [null |-> TRUE]

-----------------------------------------------------------------------------
(* Bounds of the input spaces *)

\* depths are drawn on a grid of 1/DepthSteps of a 32nd
DepthSteps == 4
\* largest depth drawn, in 32nds (the scale ends at 10)
MaxDepth32 == 12
\* largest tire age drawn, in half years
MaxAgeSteps == 7
\* largest limit of a depth range drawn, in 32nds
MaxRange32 == 9
\* largest yearly mileage drawn, in steps of 2000 miles
MaxMiles2K == 10
\* the slider positions drawn are the multiples of 1/TSteps
TSteps == 4

-----------------------------------------------------------------------------
(* Numbers *)

Abs(x) == IF x < 0 THEN -x ELSE x

Min(a, b) == IF a < b THEN a ELSE b

Max(a, b) == IF a > b THEN a ELSE b

RECURSIVE GCD(_, _)
GCD(a, b) == IF b = 0 THEN a ELSE GCD(b, a % b)

\* the rational n/d in lowest terms with a positive denominator
Rat(n, d) ==
    LET g == GCD(Abs(n), Abs(d))
        s == IF d < 0 THEN -1 ELSE 1
    IN  [n |-> (s * n) \div g, d |-> (s * d) \div g]

R(i) == [n |-> i, d |-> 1]

\* sums and comparisons are made over the least common denominator
RAdd(a, b) ==
    LET g == GCD(a.d, b.d)
    IN  Rat(a.n * (b.d \div g) + b.n * (a.d \div g), (a.d \div g) * b.d)

RSub(a, b) ==
    LET g == GCD(a.d, b.d)
    IN  Rat(a.n * (b.d \div g) - b.n * (a.d \div g), (a.d \div g) * b.d)

RMul(a, b) ==
    LET g1 == GCD(Abs(a.n), b.d)
        g2 == GCD(Abs(b.n), a.d)
    IN  Rat((a.n \div g1) * (b.n \div g2), (a.d \div g2) * (b.d \div g1))

\* a / b for b # 0
RDiv(a, b) == RMul(a, Rat(b.d, b.n))

RLt(a, b) ==
    LET g == GCD(a.d, b.d)
    IN  a.n * (b.d \div g) < b.n * (a.d \div g)

RLe(a, b) ==
    LET g == GCD(a.d, b.d)
    IN  a.n * (b.d \div g) <= b.n * (a.d \div g)

RMax(a, b) == IF RLt(a, b) THEN b ELSE a

RMin(a, b) == IF RLt(b, a) THEN b ELSE a

RAbs(a) == [n |-> Abs(a.n), d |-> a.d]

\* Math.round: the nearest integer, a tie going up
MathRound(a) == (2 * a.n + a.d) \div (2 * a.d)

-----------------------------------------------------------------------------
(* lib/constants.ts *)

RiskLevels == {"Safe", "Monitor", "Plan Soon", "Replace Now"}

WeatherModes == {"dry", "wet", "snow"}

TreadBuckets == {"NEW", "HEALTHY", "MODERATE", "LOW", "CRITICAL"}

TREAD_BUCKETS ==
    [b \in TreadBuckets |->
        CASE b = "NEW"      -> [min |-> 8, max |-> 10]
          [] b = "HEALTHY"  -> [min |-> 6, max |-> 8]
          [] b = "MODERATE" -> [min |-> 4, max |-> 6]
          [] b = "LOW"      -> [min |-> 2, max |-> 4]
          [] b = "CRITICAL" -> [min |-> 0, max |-> 2]]

WEATHER_RISK_MULTIPLIERS ==
    [m \in WeatherModes |->
        CASE m = "dry"  -> R(1)
          [] m = "wet"  -> Rat(135, 100)
          [] m = "snow" -> Rat(17, 10)]

WEATHER_DEPTH_THRESHOLDS ==
    [m \in WeatherModes |->
        CASE m = "dry"  -> [warning |-> 4, critical |-> 2]
          [] m = "wet"  -> [warning |-> 5, critical |-> 3]
          [] m = "snow" -> [warning |-> 6, critical |-> 4]]

SCORE_RANGES ==
    [b \in TreadBuckets |->
        CASE b = "NEW"      -> [min |-> 85, max |-> 100]
          [] b = "HEALTHY"  -> [min |-> 70, max |-> 85]
          [] b = "MODERATE" -> [min |-> 50, max |-> 70]
          [] b = "LOW"      -> [min |-> 25, max |-> 50]
          [] b = "CRITICAL" -> [min |-> 0, max |-> 25]]

-----------------------------------------------------------------------------
(* lib/weatherRisk.ts: the weather risk escalator *)

RISK_ORDER == <<"Safe", "Monitor", "Plan Soon", "Replace Now">>

\* Array.prototype.indexOf on RISK_ORDER (0-based, -1 when absent)
RiskIndexOf(current) ==
    IF \E i \in 1..Len(RISK_ORDER) : RISK_ORDER[i] = current
    THEN (CHOOSE i \in 1..Len(RISK_ORDER) : RISK_ORDER[i] = current) - 1
    ELSE -1

\* mutant: the index is not clamped to the end of the order and wraps
escalateRisk_wrap(current, steps) ==
    LET idx == RiskIndexOf(current)
        newIdx == (idx + steps + 1) % Len(RISK_ORDER)
    IN  RISK_ORDER[newIdx + 1]

\* mutant: the "+ 1" is dropped, so steps = 0 no longer escalates
escalateRisk_nostep(current, steps) ==
    LET idx == RiskIndexOf(current)
        newIdx == Min(Len(RISK_ORDER) - 1, idx + steps)
    IN  RISK_ORDER[newIdx + 1]

escalateRisk(current, steps) ==
    LET idx == RiskIndexOf(current)
        newIdx == Min(Len(RISK_ORDER) - 1, idx + steps + 1)
    IN  RISK_ORDER[newIdx + 1]

calculateWeatherRisk(depth32nds, baseRiskLevel, weatherMode) ==
    LET multiplier == WEATHER_RISK_MULTIPLIERS[weatherMode]
        thresholds == WEATHER_DEPTH_THRESHOLDS[weatherMode]
        wet == weatherMode = "wet"
    IN  IF weatherMode = "dry"
        THEN [adjustedRiskLevel |-> baseRiskLevel, riskModifier |-> multiplier,
              description |-> "Standard dry conditions"]
        ELSE IF RLe(depth32nds, R(thresholds.critical))
        THEN [adjustedRiskLevel |-> "Replace Now", riskModifier |-> multiplier,
              description |-> IF wet THEN "Dangerously low tread for wet conditions"
                                     ELSE "Critically insufficient tread for snow"]
        ELSE IF RLe(depth32nds, R(thresholds.warning))
        THEN [adjustedRiskLevel |-> escalateRisk(baseRiskLevel, 1),
              riskModifier |-> multiplier,
              description |-> IF wet THEN "Reduced wet traction"
                                     ELSE "Snow traction severely compromised"]
        ELSE IF RLe(depth32nds, R(thresholds.warning + 1))
        THEN [adjustedRiskLevel |-> escalateRisk(baseRiskLevel, 0),
              riskModifier |-> multiplier,
              description |-> IF wet THEN "Wet performance starting to decline"
                                     ELSE "Approaching snow safety limits"]
        ELSE [adjustedRiskLevel |-> baseRiskLevel, riskModifier |-> multiplier,
              description |-> IF wet THEN "Good tread depth for wet conditions"
                                     ELSE "Adequate tread for light snow"]

\* mutant: the months are multiplied by the multiplier
adjustRemainingMonths_product(baseMonths, weatherMode) ==
    LET multiplier == WEATHER_RISK_MULTIPLIERS[weatherMode]
    IN  Max(0, MathRound(RMul(baseMonths, multiplier)))

adjustRemainingMonths(baseMonths, weatherMode) ==
    LET multiplier == WEATHER_RISK_MULTIPLIERS[weatherMode]
    IN  Max(0, MathRound(RDiv(baseMonths, multiplier)))

-----------------------------------------------------------------------------
(* lib/healthScore.ts *)

calculateDepthScore(depth32nds) ==
    LET normalized == RDiv(RMax(R(0), RMin(R(10), depth32nds)), R(10))
    IN  RMul(normalized, R(100))

calculateAgeScore(ageMonths) ==
    IF RLe(ageMonths, R(24)) THEN R(100)
    ELSE IF RLe(R(60), ageMonths) THEN R(40)
    ELSE RSub(R(100), RMul(RDiv(RSub(ageMonths, R(24)), R(36)), R(60)))

\* mutant: Replace Now only up to a score of 15
getRiskLevel_lenient(score) ==
    IF score >= 70 THEN "Safe"
    ELSE IF score >= 50 THEN "Monitor"
    ELSE IF score > 15 THEN "Plan Soon"
    ELSE "Replace Now"

getRiskLevel(score) ==
    IF score >= 70 THEN "Safe"
    ELSE IF score >= 50 THEN "Monitor"
    ELSE IF score > 25 THEN "Plan Soon"
    ELSE "Replace Now"

\* mutant: a score of exactly 70 is not yet Safe
getRiskLevelFromScore_strict(score) ==
    IF score > 70 THEN "Safe" ELSE getRiskLevel(Min(score, 69))

getRiskLevelFromScore(score) == getRiskLevel(score)

\* the optional ageMonths parameter left out
Undefined == [undefined |-> TRUE]

\* mutant: the rounded raw score is returned without the clamp to the bucket
clampToRange_none(range, rounded) == rounded

\* Math.max(range.min, Math.min(range.max, rounded))
clampToRange(range, rounded) == Max(range.min, Min(range.max, rounded))

computeHealthScore(depth32nds, bucket, ageMonths, evenWear) ==
    LET depthScore == calculateDepthScore(depth32nds)
        ageScore == IF ageMonths # Undefined THEN calculateAgeScore(ageMonths) ELSE R(100)
        wearPatternScore == IF evenWear THEN R(100) ELSE R(65)
        rawScore == RAdd(RAdd(RMul(depthScore, Rat(80, 100)),
                              RMul(ageScore, Rat(10, 100))),
                         RMul(wearPatternScore, Rat(10, 100)))
        range == SCORE_RANGES[bucket]
        clampedScore == clampToRange(range, MathRound(rawScore))
        riskLevel == getRiskLevel(clampedScore)
    IN  [score |-> clampedScore, riskLevel |-> riskLevel, bucket |-> bucket]

\* mutant: Math.floor in place of Math.round
scoreFromDepth_floor(depth32nds) ==
    LET s == calculateDepthScore(depth32nds)
    IN  Max(0, Min(100, s.n \div s.d))

scoreFromDepth(depth32nds) ==
    Max(0, Min(100, MathRound(calculateDepthScore(depth32nds))))

-----------------------------------------------------------------------------
(* Dates: a JavaScript Date at the granularity of days, [y, m, d] with the  *)
(* month 0-based as getMonth gives it.  Every date of one computation      *)
(* carries the time of day of the clock reading it was made from.          *)

IsLeapYear(y) == y % 4 = 0 /\ (y % 100 # 0 \/ y % 400 = 0)

DaysInMonth(y, m) ==
    IF m = 1 THEN (IF IsLeapYear(y) THEN 29 ELSE 28)
    ELSE IF m \in {3, 5, 8, 10} THEN 30
    ELSE 31

\* MakeDay: a month outside 0..11 carries into the year, a day past the end of
\* its month carries into the next month
MakeDate(y, m, d) ==
    LET yy == y + (m \div 12)
        mm == m % 12
        dim == DaysInMonth(yy, mm)
    IN  IF d <= dim THEN [y |-> yy, m |-> mm, d |-> d]
        ELSE IF mm = 11 THEN [y |-> yy + 1, m |-> 0, d |-> d - dim]
        ELSE [y |-> yy, m |-> mm + 1, d |-> d - dim]

\* Date.prototype.setMonth
setMonth(date, month) == MakeDate(date.y, month, date.d)

\* mutant: the year is left as it is
setFullYear_keep(date, year) == MakeDate(date.y, date.m, date.d)

\* Date.prototype.setFullYear
setFullYear(date, year) == MakeDate(year, date.m, date.d)

\* the order of getTime()
DateLe(a, b) ==
    \/ a.y < b.y
    \/ a.y = b.y /\ a.m < b.m
    \/ a.y = b.y /\ a.m = b.m /\ a.d <= b.d

-----------------------------------------------------------------------------
(* lib/wearModel.ts: the wear timeline projector *)

\* mutant: twice the base rate
BASE_WEAR_RATE_doubled == Rat(28, 100)

BASE_WEAR_RATE_PER_1000_MILES == Rat(14, 100)

\* mutant: the aggressive-driving and skip-rotations factors are below 1
WEAR_MODIFIERS_below1 ==
    [climate  |-> [cold |-> Rat(105, 100), moderate |-> R(1), hot |-> Rat(115, 100),
                   neutral |-> R(1)],
     rotation |-> ("normal" :> R(1)) @@ ("skip-rotations" :> Rat(85, 100)),
     driving  |-> [normal |-> R(1), aggressive |-> Rat(90, 100)]]

WEAR_MODIFIERS ==
    [climate  |-> [cold |-> Rat(105, 100), moderate |-> R(1), hot |-> Rat(115, 100),
                   neutral |-> R(1)],
     rotation |-> ("normal" :> R(1)) @@ ("skip-rotations" :> Rat(115, 100)),
     driving  |-> [normal |-> R(1), aggressive |-> Rat(110, 100)]]

WET_TRACTION_DROP_DEPTH == 4

LEGAL_MINIMUM_DEPTH == 2

\* table[key] ?? 1.0
ModifierOrDefault(table, key) == IF key \in DOMAIN table THEN table[key] ELSE R(1)

\* mutant: the rounding is left out and the month offset truncated
addMonths_trunc(date, months) ==
    setMonth(date, date.m + (IF months.n >= 0 THEN months.n \div months.d
                             ELSE -((-months.n) \div months.d)))

addMonths(date, months) == setMonth(date, date.m + MathRound(months))

\* mutant: the band is not clamped
calculateConfidenceBand_noclamp(depth, milesPerYear) ==
    LET b0 == Rat(175, 1000)
        b1 == IF RLt(depth, R(3)) THEN RAdd(b0, Rat(25, 1000)) ELSE b0
        b2 == IF milesPerYear > 18000 THEN RAdd(b1, Rat(15, 1000)) ELSE b1
    IN  IF milesPerYear < 6000 THEN RAdd(b2, Rat(10, 1000)) ELSE b2

calculateConfidenceBand(depth, milesPerYear) ==
    LET b0 == Rat(175, 1000)
        b1 == IF RLt(depth, R(3)) THEN RAdd(b0, Rat(25, 1000)) ELSE b0
        b2 == IF milesPerYear > 18000 THEN RAdd(b1, Rat(15, 1000)) ELSE b1
        b3 == IF milesPerYear < 6000 THEN RAdd(b2, Rat(10, 1000)) ELSE b2
    IN  RMin(Rat(20, 100), RMax(Rat(15, 100), b3))

\* months until the depth reaches `threshold`: Math.max(0, (depth - threshold) / loss)
monthsTo(currentDepth, threshold, depthLossPerMonth) ==
    RMax(R(0), RDiv(RSub(currentDepth, R(threshold)), depthLossPerMonth))

\* mutant: the tire is dead at zero depth (monthsToDeadRaw)
monthsToDead_raw(monthsToLegal, monthsToDeadRaw) == monthsToDeadRaw

\* const monthsToDead = monthsToLegal
monthsToDead(monthsToLegal, monthsToDeadRaw) == monthsToLegal

\* `now` is the reading of the clock (new Date()) of the call
predictWearTimeline(input, now) ==
    LET currentDepth == Rat(input.depthRange.min + input.depthRange.max, 2)
        climateModifier == ModifierOrDefault(WEAR_MODIFIERS.climate, input.climate)
        rotationModifier == ModifierOrDefault(WEAR_MODIFIERS.rotation, input.rotation)
        drivingModifier == ModifierOrDefault(WEAR_MODIFIERS.driving, input.drivingStyle)
        adjustedWearRate ==
            RMul(RMul(RMul(BASE_WEAR_RATE_PER_1000_MILES, climateModifier),
                      rotationModifier), drivingModifier)
        milesPerMonth == Rat(input.milesPerYear, 12)
        depthLossPerMonth == RMul(RDiv(milesPerMonth, R(1000)), adjustedWearRate)
    IN  IF RLe(depthLossPerMonth, R(0))
        THEN LET farFuture == setFullYear(now, now.y + 10)
             IN  [currentDepth32nds |-> currentDepth,
                  wearRatePer1000Miles |-> adjustedWearRate,
                  wetTractionDropDate |-> farFuture,
                  legalMinimumDate |-> farFuture,
                  tireDeadDate |-> farFuture,
                  remainingMonths |-> 120,
                  confidenceBand |-> Rat(20, 100)]
        ELSE LET monthsToWetDrop ==
                     monthsTo(currentDepth, WET_TRACTION_DROP_DEPTH, depthLossPerMonth)
                 monthsToLegal ==
                     monthsTo(currentDepth, LEGAL_MINIMUM_DEPTH, depthLossPerMonth)
                 monthsToDeadRaw == monthsTo(currentDepth, 0, depthLossPerMonth)
                 monthsToDeadV == monthsToDead(monthsToLegal, monthsToDeadRaw)
             IN  [currentDepth32nds |-> currentDepth,
                  wearRatePer1000Miles |-> adjustedWearRate,
                  wetTractionDropDate |-> addMonths(now, monthsToWetDrop),
                  legalMinimumDate |-> addMonths(now, monthsToLegal),
                  tireDeadDate |-> addMonths(now, monthsToDeadV),
                  remainingMonths |-> MathRound(monthsToDeadV),
                  confidenceBand |-> calculateConfidenceBand(currentDepth,
                                                             input.milesPerYear)]

\* mutant: the elapsed months are counted from one month ahead
depthAtTime_monthAhead(currentDepth, t, totalMonths, wearRatePerMonth) ==
    LET monthsElapsed == RAdd(RMul(t, totalMonths), R(1))
        depth == RSub(currentDepth, RMul(monthsElapsed, wearRatePerMonth))
    IN  RMax(R(0), Rat(MathRound(RMul(depth, R(100))), 100))

\* mutant: the wear is added to the depth
depthAtTime_rising(currentDepth, t, totalMonths, wearRatePerMonth) ==
    LET monthsElapsed == RMul(t, totalMonths)
        depth == RAdd(currentDepth, RMul(monthsElapsed, wearRatePerMonth))
    IN  RMax(R(0), Rat(MathRound(RMul(depth, R(100))), 100))

\* mutant: the floor at zero is left out
depthAtTime_nofloor(currentDepth, t, totalMonths, wearRatePerMonth) ==
    LET monthsElapsed == RMul(t, totalMonths)
        depth == RSub(currentDepth, RMul(monthsElapsed, wearRatePerMonth))
    IN  Rat(MathRound(RMul(depth, R(100))), 100)

depthAtTime(currentDepth, t, totalMonths, wearRatePerMonth) ==
    LET monthsElapsed == RMul(t, totalMonths)
        depth == RSub(currentDepth, RMul(monthsElapsed, wearRatePerMonth))
    IN  RMax(R(0), Rat(MathRound(RMul(depth, R(100))), 100))

dateAtTime(t, totalMonths, now) == addMonths(now, RMul(t, totalMonths))

getMonthlyWearRate(wearRatePer1000Miles, milesPerYear) ==
    RMul(RDiv(Rat(milesPerYear, 12), R(1000)), wearRatePer1000Miles)

-----------------------------------------------------------------------------
(* app/api/analyze/route.ts: the analysis the results page is given *)

\* parseInt(zip.substring(0, 3), 10) for the ZIP strings drawn; -1 stands for NaN
ZipPrefix(zip) ==
    CASE zip = "10001" -> 100
      [] zip = "20001" -> 200
      [] zip = "30301" -> 303
      [] zip = "05001" -> 50
      [] OTHER -> -1

\* no zip (undefined or the empty string) is spelled ""
zipToClimate(zip) ==
    LET prefix == ZipPrefix(zip)
    IN  IF zip = "" THEN "neutral"
        ELSE IF prefix = -1 THEN "neutral"
        ELSE IF prefix >= 0 /\ prefix <= 99 THEN "cold"
        ELSE IF prefix >= 100 /\ prefix <= 199 THEN "cold"
        ELSE IF prefix >= 200 /\ prefix <= 299 THEN "moderate"
        ELSE IF prefix >= 300 /\ prefix <= 399 THEN "hot"
        ELSE IF prefix >= 400 /\ prefix <= 499 THEN "moderate"
        ELSE IF prefix >= 500 /\ prefix <= 599 THEN "cold"
        ELSE IF prefix >= 600 /\ prefix <= 699 THEN "moderate"
        ELSE IF prefix >= 700 /\ prefix <= 799 THEN "hot"
        ELSE IF prefix >= 800 /\ prefix <= 899 THEN "moderate"
        ELSE IF prefix >= 900 /\ prefix <= 999 THEN "hot"
        ELSE "neutral"

\* POST /api/analyze for a body with a valid bucket; the three dates cross the
\* wire as ISO strings and are parsed back by the results page
POST(body, now) ==
    LET climate == zipToClimate(body.zip)
        wearInput == [depthRange |-> body.depthRange, milesPerYear |-> body.milesPerYear,
                      climate |-> climate, rotation |-> "normal",
                      drivingStyle |-> "normal"]
        wearPrediction == predictWearTimeline(wearInput, now)
        healthScore == computeHealthScore(wearPrediction.currentDepth32nds, body.bucket,
                                          Undefined, TRUE)
    IN  [treadEstimate |-> [bucket |-> body.bucket, depthRange32nds |-> body.depthRange,
                            confidence |-> body.confidence],
         wearPrediction |-> wearPrediction,
         healthScore |-> healthScore]

-----------------------------------------------------------------------------
(* hooks/useTimeTravelState: what each useMemo computes *)

\* mutant: the skip-rotations multiplier is applied the wrong way round
DrivingDivisor_inverted(skip, aggressive) ==
    RMul(IF skip THEN Rat(100, 115) ELSE R(1),
         IF aggressive THEN WEAR_MODIFIERS.driving.aggressive ELSE R(1))

\* (skipRotations ? 1.15 : 1) * (aggressiveDriving ? 1.10 : 1)
DrivingDivisor(skip, aggressive) ==
    RMul(IF skip THEN WEAR_MODIFIERS.rotation["skip-rotations"] ELSE R(1),
         IF aggressive THEN WEAR_MODIFIERS.driving.aggressive ELSE R(1))

AdjustedWearRateMemo(an, skip, aggressive) ==
    IF an = Null THEN R(0)
    ELSE LET rate0 == an.wearPrediction.wearRatePer1000Miles
             rate1 == IF skip THEN RMul(rate0, WEAR_MODIFIERS.rotation["skip-rotations"])
                      ELSE rate0
         IN  IF aggressive THEN RMul(rate1, WEAR_MODIFIERS.driving.aggressive) ELSE rate1

TotalMonthsMemo(an, skip, aggressive, mode) ==
    IF an = Null THEN 0
    ELSE LET baseMonths == an.wearPrediction.remainingMonths
             adjustedForDriving ==
                 IF skip \/ aggressive
                 THEN MathRound(RDiv(R(baseMonths), DrivingDivisor(skip, aggressive)))
                 ELSE baseMonths
         IN  adjustRemainingMonths(R(adjustedForDriving), mode)

MonthlyWearRateMemo(an, rate) ==
    IF an = Null THEN R(0) ELSE getMonthlyWearRate(rate, 12000)

StateMemo(an, tt, months, rate, mode, skip, aggressive, now) ==
    IF an = Null
    THEN [t |-> R(0), currentDate |-> now, currentDepth |-> R(0), currentScore |-> 0,
          currentRisk |-> "Safe", weatherMode |-> "dry", skipRotations |-> FALSE,
          aggressiveDriving |-> FALSE]
    ELSE LET currentDepth ==
                 depthAtTime(an.wearPrediction.currentDepth32nds, tt, R(months), rate)
             currentScore == scoreFromDepth(currentDepth)
             baseRisk == getRiskLevelFromScore(currentScore)
             weatherResult == calculateWeatherRisk(currentDepth, baseRisk, mode)
             currentDate == dateAtTime(tt, R(months), now)
         IN  [t |-> tt, currentDate |-> currentDate, currentDepth |-> currentDepth,
              currentScore |-> currentScore,
              currentRisk |-> weatherResult.adjustedRiskLevel, weatherMode |-> mode,
              skipRotations |-> skip, aggressiveDriving |-> aggressive]

-----------------------------------------------------------------------------
(* The results page and its time-travel hook *)

Epoch == [y |-> 2026, m |-> 0, d |-> 31]

\* readings of the clock: the end of a 31-day month, a leap day
Clocks == {Epoch, [y |-> 2028, m |-> 1, d |-> 29]}

\* the hook before the page has read an analysis from the session storage
HookUnmounted(now) ==
    /\ analysis = Null
    /\ hook_t = R(0)
    /\ hook_weatherMode = "dry"
    /\ hook_skipRotations = FALSE
    /\ hook_aggressiveDriving = FALSE
    /\ hook_adjustedWearRate = AdjustedWearRateMemo(Null, FALSE, FALSE)
    /\ hook_totalMonths = TotalMonthsMemo(Null, FALSE, FALSE, "dry")
    /\ hook_monthlyWearRate = MonthlyWearRateMemo(Null, R(0))
    /\ hook_state = StateMemo(Null, R(0), 0, R(0), "dry", FALSE, FALSE, now)
    /\ today = now

\* a canvas the results page has not mounted
CanvasUnmounted ==
    /\ canvas = <<>>
    /\ imageRef = "none"
    /\ options = Null
    /\ calls = 0

\* the components that are not on screen
Unmounted == [mounted |-> FALSE]

PagesUnmounted ==
    /\ viewer = Unmounted
    /\ resultsPage = Unmounted
    /\ scanPage = Unmounted

-----------------------------------------------------------------------------
(* Inputs of the weather and health-score calls *)

DepthGrid == {Rat(k, DepthSteps) : k \in (-DepthSteps)..(MaxDepth32 * DepthSteps)}

\* tire ages in months: every half year, and one age between two months
AgeGrid == {R(6 * k) : k \in 0..MaxAgeSteps} \cup {Rat(85, 2)}

WeatherRiskInputs ==
    [fn : {"calculateWeatherRisk"}, depth32nds : DepthGrid,
     baseRiskLevel : RiskLevels, weatherMode : WeatherModes]

AdjustMonthsInputs ==
    [fn : {"adjustRemainingMonths"}, baseMonths : {R(m) : m \in 0..(MaxDepth32 * DepthSteps)},
     weatherMode : WeatherModes]

ScoreFromDepthInputs == [fn : {"scoreFromDepth"}, depth32nds : DepthGrid]

HealthScoreInputs ==
    [fn : {"computeHealthScore"}, depth32nds : DepthGrid, bucket : TreadBuckets,
     ageMonths : AgeGrid \cup {Undefined}, evenWear : BOOLEAN]

-----------------------------------------------------------------------------
(* The weather escalator's calls *)

InitWeather ==
    /\ args \in WeatherRiskInputs \cup AdjustMonthsInputs
    /\ ret = NoRet
    /\ HookUnmounted(Epoch)
    /\ CanvasUnmounted
    /\ PagesUnmounted

CallCalculateWeatherRisk ==
    /\ args.fn = "calculateWeatherRisk"
    /\ ret = NoRet
    /\ ret' = [fn |-> args.fn,
               value |-> calculateWeatherRisk(args.depth32nds, args.baseRiskLevel,
                                              args.weatherMode)]
    /\ UNCHANGED <<args, hookVars, canvasVars, pageVars>>

CallAdjustRemainingMonths ==
    /\ args.fn = "adjustRemainingMonths"
    /\ ret = NoRet
    /\ ret' = [fn |-> args.fn,
               value |-> adjustRemainingMonths(args.baseMonths, args.weatherMode)]
    /\ UNCHANGED <<args, hookVars, canvasVars, pageVars>>

NextWeather == CallCalculateWeatherRisk \/ CallAdjustRemainingMonths

SpecWeather == InitWeather /\ [][NextWeather]_vars

-----------------------------------------------------------------------------
(* The health score's calls *)

InitHealth ==
    /\ args \in ScoreFromDepthInputs \cup HealthScoreInputs
    /\ ret = NoRet
    /\ HookUnmounted(Epoch)
    /\ CanvasUnmounted
    /\ PagesUnmounted

CallScoreFromDepth ==
    /\ args.fn = "scoreFromDepth"
    /\ ret = NoRet
    /\ ret' = [fn |-> args.fn, value |-> scoreFromDepth(args.depth32nds)]
    /\ UNCHANGED <<args, hookVars, canvasVars, pageVars>>

CallComputeHealthScore ==
    /\ args.fn = "computeHealthScore"
    /\ ret = NoRet
    /\ ret' = [fn |-> args.fn,
               value |-> computeHealthScore(args.depth32nds, args.bucket,
                                            args.ageMonths, args.evenWear)]
    /\ UNCHANGED <<args, hookVars, canvasVars, pageVars>>

NextHealth == CallScoreFromDepth \/ CallComputeHealthScore

SpecHealth == InitHealth /\ [][NextHealth]_vars

-----------------------------------------------------------------------------
(* Inputs of the wear model's calls *)

\* the ranges of the five buckets, and every range of width 0 or 1
DepthRanges ==
    {TREAD_BUCKETS[b] : b \in TreadBuckets}
        \cup {[min |-> a, max |-> a] : a \in 0..MaxRange32}
        \cup {[min |-> a, max |-> a + 1] : a \in 0..(MaxRange32 - 1)}

MilesGrid == {2000 * k : k \in (-1)..MaxMiles2K} \cup {500, 5000, 19000}

Climates == {"cold", "moderate", "hot", "neutral"}

Rotations == {"normal", "skip-rotations"}

DrivingStyles == {"normal", "aggressive"}

\* the enum members, and one value that is none of them
PredictInputs ==
    [fn : {"predictWearTimeline"}, depthRange : DepthRanges, milesPerYear : MilesGrid,
     climate : Climates \cup {"tropical"}, rotation : Rotations \cup {"weekly"},
     drivingStyle : DrivingStyles \cup {"racing"}, now : Clocks]

WearInput(a) ==
    [depthRange |-> a.depthRange, milesPerYear |-> a.milesPerYear, climate |-> a.climate,
     rotation |-> a.rotation, drivingStyle |-> a.drivingStyle]

TGrid == {Rat(k, TSteps) : k \in 0..TSteps}

\* what the slider can hand to setT, and a value on either side of its range
SliderInputs == {Rat(k, TSteps) : k \in (-1)..(TSteps + 1)}

\* what the scan page posts: the bucket's own depth range, a mileage that
\* parseInt(...) || 12000 can give, a ZIP or none
AnalyzeBodies ==
    {[bucket |-> b, depthRange |-> TREAD_BUCKETS[b], confidence |-> Rat(7, 10),
      milesPerYear |-> mi, zip |-> z] :
        b \in TreadBuckets,
        mi \in {x \in MilesGrid : x # 0 /\ (x < 1000 \/ x % 6000 = 0)},
        z \in {"", "10001", "20001", "30301"}}

\* the arguments the hook can hand to depthAtTime
HookDepthAtTimeInputs ==
    {[fn |-> "depthAtTime",
      currentDepth |-> POST(body, Epoch).wearPrediction.currentDepth32nds,
      t |-> tt,
      totalMonths |-> R(TotalMonthsMemo(POST(body, Epoch), skip, aggressive, mode)),
      wearRatePerMonth |->
          MonthlyWearRateMemo(POST(body, Epoch),
                              AdjustedWearRateMemo(POST(body, Epoch), skip, aggressive))] :
        body \in AnalyzeBodies, tt \in TGrid, skip \in BOOLEAN, aggressive \in BOOLEAN,
        mode \in WeatherModes}

DepthAtTimeInputs ==
    [fn : {"depthAtTime"},
     currentDepth : {Rat(k, 2) : k \in (-2)..(2 * MaxRange32)},
     t : TGrid,
     totalMonths : {R(-6), R(0), R(1), R(36), R(40), R(100), R(120), R(600)},
     wearRatePerMonth : {Rat(-1, 10), R(0), Rat(14, 100), Rat(2, 10), R(1), R(25)}]

-----------------------------------------------------------------------------
(* The wear model's calls *)

InitWear ==
    /\ args \in PredictInputs \cup DepthAtTimeInputs \cup HookDepthAtTimeInputs
    /\ ret = NoRet
    /\ HookUnmounted(Epoch)
    /\ CanvasUnmounted
    /\ PagesUnmounted

CallPredictWearTimeline ==
    /\ args.fn = "predictWearTimeline"
    /\ ret = NoRet
    /\ ret' = [fn |-> args.fn, value |-> predictWearTimeline(WearInput(args), args.now)]
    /\ UNCHANGED <<args, hookVars, canvasVars, pageVars>>

CallDepthAtTime ==
    /\ args.fn = "depthAtTime"
    /\ ret = NoRet
    /\ ret' = [fn |-> args.fn,
               value |-> depthAtTime(args.currentDepth, args.t, args.totalMonths,
                                     args.wearRatePerMonth)]
    /\ UNCHANGED <<args, hookVars, canvasVars, pageVars>>

NextWear == CallPredictWearTimeline \/ CallDepthAtTime

SpecWear == InitWear /\ [][NextWear]_vars

-----------------------------------------------------------------------------
(* The hook's renders and handlers *)

\* mutant: weatherMode is missing from the dependencies of totalMonths
Render_staleMonths ==
    /\ hook_adjustedWearRate' =
          AdjustedWearRateMemo(analysis', hook_skipRotations', hook_aggressiveDriving')
    /\ hook_totalMonths' =
          IF <<analysis', hook_skipRotations', hook_aggressiveDriving'>>
                 # <<analysis, hook_skipRotations, hook_aggressiveDriving>>
          THEN TotalMonthsMemo(analysis', hook_skipRotations', hook_aggressiveDriving',
                               hook_weatherMode')
          ELSE hook_totalMonths
    /\ hook_monthlyWearRate' = MonthlyWearRateMemo(analysis', hook_adjustedWearRate')
    /\ hook_state' =
          StateMemo(analysis', hook_t', hook_totalMonths', hook_monthlyWearRate',
                    hook_weatherMode', hook_skipRotations', hook_aggressiveDriving', today)

\* a render of the hook: each useMemo recomputes when one of its dependencies
\* differs from the last render's, in the order the hook declares them
Render ==
    /\ hook_adjustedWearRate' =
          IF <<analysis', hook_skipRotations', hook_aggressiveDriving'>>
                 # <<analysis, hook_skipRotations, hook_aggressiveDriving>>
          THEN AdjustedWearRateMemo(analysis', hook_skipRotations',
                                    hook_aggressiveDriving')
          ELSE hook_adjustedWearRate
    /\ hook_totalMonths' =
          IF <<analysis', hook_skipRotations', hook_aggressiveDriving', hook_weatherMode'>>
                 # <<analysis, hook_skipRotations, hook_aggressiveDriving, hook_weatherMode>>
          THEN TotalMonthsMemo(analysis', hook_skipRotations', hook_aggressiveDriving',
                               hook_weatherMode')
          ELSE hook_totalMonths
    /\ hook_monthlyWearRate' =
          IF <<analysis', hook_adjustedWearRate'>> # <<analysis, hook_adjustedWearRate>>
          THEN MonthlyWearRateMemo(analysis', hook_adjustedWearRate')
          ELSE hook_monthlyWearRate
    /\ hook_state' =
          IF <<analysis', hook_t', hook_totalMonths', hook_monthlyWearRate',
               hook_weatherMode', hook_skipRotations', hook_aggressiveDriving'>>
                 # <<analysis, hook_t, hook_totalMonths, hook_monthlyWearRate,
                     hook_weatherMode, hook_skipRotations, hook_aggressiveDriving>>
          THEN StateMemo(analysis', hook_t', hook_totalMonths', hook_monthlyWearRate',
                         hook_weatherMode', hook_skipRotations',
                         hook_aggressiveDriving', today)
          ELSE hook_state

InitHook ==
    /\ args = NoCall
    /\ ret = NoRet
    /\ \E now \in Clocks : HookUnmounted(now)
    /\ CanvasUnmounted
    /\ PagesUnmounted

\* the results page reads the stored analysis and hands it to the hook
LoadAnalysis ==
    /\ analysis = Null
    /\ \E body \in AnalyzeBodies : analysis' = POST(body, today)
    /\ UNCHANGED <<hook_t, hook_weatherMode, hook_skipRotations, hook_aggressiveDriving>>
    /\ Render
    /\ UNCHANGED <<pureVars, today, canvasVars, pageVars>>

\* handleSliderChange; the controls are rendered once an analysis is loaded
SetT ==
    /\ analysis # Null
    /\ \E newT \in SliderInputs : hook_t' = RMax(R(0), RMin(R(1), newT))
    /\ UNCHANGED <<analysis, hook_weatherMode, hook_skipRotations, hook_aggressiveDriving>>
    /\ Render
    /\ UNCHANGED <<pureVars, today, canvasVars, pageVars>>

SetWeatherMode ==
    /\ analysis # Null
    /\ \E mode \in WeatherModes : hook_weatherMode' = mode
    /\ UNCHANGED <<analysis, hook_t, hook_skipRotations, hook_aggressiveDriving>>
    /\ Render
    /\ UNCHANGED <<pureVars, today, canvasVars, pageVars>>

ToggleSkipRotations ==
    /\ analysis # Null
    /\ hook_skipRotations' = ~hook_skipRotations
    /\ UNCHANGED <<analysis, hook_t, hook_weatherMode, hook_aggressiveDriving>>
    /\ Render
    /\ UNCHANGED <<pureVars, today, canvasVars, pageVars>>

ToggleAggressiveDriving ==
    /\ analysis # Null
    /\ hook_aggressiveDriving' = ~hook_aggressiveDriving
    /\ UNCHANGED <<analysis, hook_t, hook_weatherMode, hook_skipRotations>>
    /\ Render
    /\ UNCHANGED <<pureVars, today, canvasVars, pageVars>>

NextHook ==
    \/ LoadAnalysis
    \/ SetT
    \/ SetWeatherMode
    \/ ToggleSkipRotations
    \/ ToggleAggressiveDriving

SpecHook == InitHook /\ [][NextHook]_vars

-----------------------------------------------------------------------------
(* The deterioration pipeline (weatherRisk.ts 340-713) on a 2D canvas.       *)
(* The canvas bitmap and an ImageData are flat arrays of bytes, four to a    *)
(* pixel, indexed from 0 as in the code.  Reals are carried in thousandths   *)
(* (names ending in M) and random numbers in millionths (names ending in U). *)

\* Math.round(n / d), d > 0
RoundDiv(n, d) == (2 * n + d) \div (2 * d)

\* Math.ceil(n / d), d > 0
CeilDiv(n, d) == -((-n) \div d)

\* a store of n / d into a Uint8ClampedArray: nearest integer, ties to even, clamped
ToUint8Clamped(n, d) ==
    LET q == n \div d
        r == n % d
        nearest == IF 2 * r < d THEN q
                   ELSE IF 2 * r > d THEN q + 1
                   ELSE IF q % 2 = 0 THEN q ELSE q + 1
    IN  Max(0, Min(255, nearest))

RECURSIVE SqrtSearch(_, _, _)
SqrtSearch(n, lo, hi) ==
    IF lo >= hi THEN lo
    ELSE LET mid == (lo + hi + 1) \div 2
         IN  IF mid * mid <= n THEN SqrtSearch(n, mid, hi) ELSE SqrtSearch(n, lo, mid - 1)

\* Math.sqrt, rounded down to an integer
Sqrt(n) == SqrtSearch(n, 0, 46340)

\* exp(-x), x in [0, 1] in thousandths, by its series; the result in millionths
RECURSIVE ExpSeries(_, _, _)
ExpSeries(xM, termU, k) ==
    IF k > 10 \/ termU = 0 THEN 0
    ELSE termU + ExpSeries(xM, -((termU * xM) \div (1000 * k)), k + 1)

ExpNegU(xM) == ExpSeries(xM, 1000000, 1)

\* sin and cos of an angle in thousandths of a radian, by their series
RECURSIVE TrigSeries(_, _, _)
TrigSeries(xM, termM, k) ==
    IF k > 25 \/ termM = 0 THEN 0
    ELSE termM + TrigSeries(xM, -((((termM * xM) \div 1000) * xM) \div (1000 * k * (k + 1))),
                            k + 2)

CosM(xM) == TrigSeries(xM, 1000, 1)

SinM(xM) == TrigSeries(xM, xM, 2)

\* Math.atan2(y, x) for x > 0, in thousandths of a radian: the argument is halved
\* twice, atan z = 2 atan(z / (1 + sqrt(1 + z^2))), then the series is summed
HalfTangent(zM) == (zM * 1000) \div (1000 + Sqrt(1000000 + zM * zM))

AtanSmallM(zM) ==
    LET z2 == (zM * zM) \div 1000
        z3 == (zM * z2) \div 1000
        z5 == (z3 * z2) \div 1000
        z7 == (z5 * z2) \div 1000
    IN  zM - z3 \div 3 + z5 \div 5 - z7 \div 7

Atan2M(y, x) ==
    LET zM == (Abs(y) * 1000) \div x
        a == 4 * AtanSmallM(HalfTangent(HalfTangent(zM)))
    IN  IF y < 0 THEN -a ELSE a

-----------------------------------------------------------------------------
(* The canvas: an 8-bit bitmap with premultiplied alpha *)

\* canvas.width and canvas.height, in pixels
CanvasSize == 6
\* calls of applyDeterioration on one canvas before it is resized
MaxCalls == 2

PixelsOf(width, height) == 0..(width * height - 1)

BytesOf(width, height) == 0..(4 * width * height - 1)

\* a canvas after its width or height is set: transparent black
BlankCanvas(width, height) == [i \in BytesOf(width, height) |-> 0]

\* a colour channel c under alpha a, both 0..255, as the bitmap stores it
Premultiply(c, a) == RoundDiv(c * a, 255)

\* the channel getImageData hands back for a stored channel
Unpremultiply(c, a) == IF a = 0 THEN 0 ELSE Min(255, RoundDiv(c * 255, a))

\* source-over compositing of one premultiplied source byte of alpha sa on a byte
SourceOver(src, sa, dst) == Min(255, src + RoundDiv(dst * (255 - sa), 255))

\* the uploaded photos, decoded at the canvas' size: an opaque photo of a tread
\* (dark grooves every third column), and the same photo as a cut-out whose
\* border is transparent and whose top row inside it is half transparent
Images == {"photo", "cutout"}

ImageData(img, width, height) ==
    [i \in BytesOf(width, height) |->
        LET k == i \div 4
            x == k % width
            y == k \div width
            lum == IF x % 3 = 1 THEN 40 + 8 * (y % 2) ELSE 150 + 12 * (y % 3)
            border == x = 0 \/ y = 0 \/ x = width - 1 \/ y = height - 1
        IN  CASE i % 4 = 0 -> lum + 10
              [] i % 4 = 1 -> lum
              [] i % 4 = 2 -> lum - 10
              [] OTHER -> IF img = "photo" THEN 255
                          ELSE IF border THEN 0
                          ELSE IF y = 1 THEN 128 ELSE 255]

\* ctx.drawImage(originalImage, 0, 0, width, height): the image is composited on
\* what the canvas holds (globalCompositeOperation is source-over; nothing clears it)
drawImage(bitmap, img, width, height) ==
    LET source == ImageData(img, width, height)
    IN  [i \in BytesOf(width, height) |->
            LET sa == source[4 * (i \div 4) + 3]
                src == IF i % 4 = 3 THEN sa ELSE Premultiply(source[i], sa)
            IN  SourceOver(src, sa, bitmap[i])]

\* ctx.getImageData(0, 0, width, height).data
getImageData(bitmap, width, height) ==
    [i \in BytesOf(width, height) |->
        IF i % 4 = 3 THEN bitmap[i] ELSE Unpremultiply(bitmap[i], bitmap[4 * (i \div 4) + 3])]

\* ctx.putImageData(imageData, 0, 0): the bytes replace the bitmap's
putImageData(pixels, width, height) ==
    [i \in BytesOf(width, height) |->
        IF i % 4 = 3 THEN pixels[i] ELSE Premultiply(pixels[i], pixels[4 * (i \div 4) + 3])]

\* ctx.fillRect(0, 0, width, height) with a fill of colour <<r, g, b>> whose alpha
\* at pixel k is alpha8[k] (0..255)
fillRect(bitmap, colour, alpha8, width, height) ==
    [i \in BytesOf(width, height) |->
        LET sa == alpha8[i \div 4]
            src == IF i % 4 = 3 THEN sa ELSE Premultiply(colour[(i % 4) + 1], sa)
        IN  SourceOver(src, sa, bitmap[i])]

-----------------------------------------------------------------------------
(* The tread mask and the per-pixel passes *)

\* the mask of pixel k, in thousandths; dxM and dyM are |dx| and |dy|
createTreadMask(width, height, unevenWear) ==
    [k \in PixelsOf(width, height) |->
        LET x == k % width
            y == k \div width
            dxM == (Abs(2 * x - width) * 10000) \div (7 * width)
            dyM == (Abs(2 * y - height) * 10000) \div (8 * height)
            dist == Sqrt(dxM * dxM + dyM * dyM)
            linear == Max(0, 1000 - dist)
            value == (((linear * linear) \div 1000) * (3000 - 2 * linear)) \div 1000
            shoulderBoost == ((dxM - 500) * 12) \div 10
        IN  IF ~unevenWear THEN value
            ELSE IF dxM > 500 THEN Min(1000, value + (shoulderBoost * value) \div 1000)
            ELSE Min(1000, value + ((((dxM * 3) \div 10) * value) \div 1000))]

\* one iteration of the loop of applyContrastReduction, at pixel k.  (The loops
\* below run the iterations in the order of the code, row by row; each compares
\* the buffer an iteration leaves with the one it found, so that the iteration is
\* computed before the next one starts.)
ContrastReductionAt(pixels, mask, strengthM, k) ==
    LET idx == k * 4
        m == (mask[k] * strengthM) \div 1000
        gray100 == pixels[idx] * 30 + pixels[idx + 1] * 59 + pixels[idx + 2] * 11
        warmGray100 == gray100 + 200
        blend(p, target100) ==
            Max(0, Min(255, RoundDiv(p * 100000 + (target100 - 100 * p) * m, 100000)))
    IN  IF m < 10 THEN pixels
        ELSE [pixels EXCEPT ![idx] = blend(pixels[idx], warmGray100),
                            ![idx + 1] = blend(pixels[idx + 1], warmGray100 - 100),
                            ![idx + 2] = blend(pixels[idx + 2], warmGray100 - 300)]

RECURSIVE ContrastReductionLoop(_, _, _, _, _)
ContrastReductionLoop(pixels, mask, strengthM, k, n) ==
    IF k >= n THEN pixels
    ELSE LET next == ContrastReductionAt(pixels, mask, strengthM, k)
         IN  IF next = pixels THEN ContrastReductionLoop(pixels, mask, strengthM, k + 1, n)
             ELSE ContrastReductionLoop(next, mask, strengthM, k + 1, n)

\* t is in thousandths
applyContrastReduction(pixels, mask, t, width, height) ==
    ContrastReductionLoop(pixels, mask, (t * 45) \div 100, 0, width * height)

\* the offsets -radius, -radius + 2, .. of the sampling loops
SampleOffsets(radius) == [i \in 1..(radius + 1) |-> 2 * (i - 1) - radius]

\* the normalised weights, in thousandths, in the order the loops push them
GaussianWeights(radius) ==
    LET offs == SampleOffsets(radius)
        n == radius + 1
        raw == [i \in 1..(n * n) |->
                   LET dy == offs[((i - 1) \div n) + 1]
                       dx == offs[((i - 1) % n) + 1]
                   IN  ExpNegU(((dx * dx + dy * dy) * 1000) \div (2 * radius * radius))]
        \* weightSum, in thousandths
        sumUpTo[i \in 0..(n * n)] == IF i = 0 THEN 0 ELSE sumUpTo[i - 1] + raw[i] \div 1000
        weightSum == sumUpTo[n * n]
    IN  [i \in 1..(n * n) |-> raw[i] \div weightSum]

\* the weighted sum of channel c of `original` around pixel (x, y), in thousandths
GaussianSample(original, weights, radius, x, y, c, width) ==
    LET offs == SampleOffsets(radius)
        n == radius + 1
        acc[i \in 0..(n * n)] ==
            IF i = 0 THEN 0
            ELSE LET dy == offs[((i - 1) \div n) + 1]
                     dx == offs[((i - 1) % n) + 1]
                     si == ((y + dy) * width + (x + dx)) * 4
                 IN  acc[i - 1] + original[si + c] * weights[i]
    IN  acc[n * n]

\* one iteration of the loops of applyGaussianSmoothing, at pixel k
GaussianSmoothingAt(pixels, original, mask, weights, strengthM, radius, k, width, height) ==
    LET x == k % width
        y == k \div width
        idx == k * 4
        m == (mask[k] * strengthM) \div 1000
        inLoop == /\ radius <= x /\ x < width - radius
                  /\ radius <= y /\ y < height - radius
        blend(p, sumM) ==
            Max(0, Min(255, RoundDiv(p * 1000000 + (sumM - 1000 * p) * m, 1000000)))
    IN  IF ~inLoop \/ m < 50 THEN pixels
        ELSE [pixels EXCEPT
                 ![idx] = blend(pixels[idx],
                                GaussianSample(original, weights, radius, x, y, 0, width)),
                 ![idx + 1] = blend(pixels[idx + 1],
                                    GaussianSample(original, weights, radius, x, y, 1, width)),
                 ![idx + 2] = blend(pixels[idx + 2],
                                    GaussianSample(original, weights, radius, x, y, 2, width))]

RECURSIVE GaussianSmoothingLoop(_, _, _, _, _, _, _, _, _)
GaussianSmoothingLoop(pixels, original, mask, weights, strengthM, radius, k, width, height) ==
    IF k >= width * height THEN pixels
    ELSE LET next == GaussianSmoothingAt(pixels, original, mask, weights, strengthM,
                                         radius, k, width, height)
         IN  IF next = pixels
             THEN GaussianSmoothingLoop(pixels, original, mask, weights, strengthM, radius,
                                        k + 1, width, height)
             ELSE GaussianSmoothingLoop(next, original, mask, weights, strengthM, radius,
                                        k + 1, width, height)

applyGaussianSmoothing(pixels, mask, t, width, height) ==
    LET strengthM == Min(1000, ((t - 120) * 13) \div 10)
        radius == CeilDiv(strengthM * 2, 1000) + 1
    IN  GaussianSmoothingLoop(pixels, pixels, mask, GaussianWeights(radius), strengthM,
                              radius, 0, width, height)

\* (r + g + b) of pixel k of a buffer: three times its luminance
Lum3(buffer, k) == buffer[4 * k] + buffer[4 * k + 1] + buffer[4 * k + 2]

\* the pixels around k, in the order of the dy and dx loops
Neighbours8(k, width) ==
    {k + dy * width + dx : dy \in {-1, 0, 1}, dx \in {-1, 0, 1}} \ {k}

RECURSIVE SumAbsDiff3(_, _, _, _)
SumAbsDiff3(original, lum3, ks, acc) ==
    IF ks = {} THEN acc
    ELSE LET n == CHOOSE j \in ks : TRUE
         IN  SumAbsDiff3(original, lum3, ks \ {n}, acc + Abs(lum3 - Lum3(original, n)))

\* lift = m * (130 - Math.min(lum, 130)) * liftFactor, over 30000: m is in
\* thousandths, lum3 is three times lum, sumDiff3 is 24 times avgDiff, and
\* liftFactor is 0.4 for a groove (lum < 100), else 0.2 for an edge, else 0
GrooveLift30000(m, lum3, sumDiff3) ==
    LET isGroove == lum3 < 300
        isEdge == sumDiff3 > 360
        liftFactor10 == IF isGroove THEN 4 ELSE IF isEdge THEN 2 ELSE 0
    IN  m * (390 - Min(lum3, 390)) * liftFactor10

\* one iteration of the loops of applyGrooveErosion, at pixel k
GrooveErosionAt(pixels, original, mask, strengthM, k, width, height) ==
    LET x == k % width
        y == k \div width
        idx == k * 4
        m == (mask[k] * strengthM) \div 1000
        inLoop == 1 <= x /\ x < width - 1 /\ 1 <= y /\ y < height - 1
        lum3 == Lum3(pixels, k)
        \* avgDiff = sumDiff / 8, and each difference is a third of these
        sumDiff3 == SumAbsDiff3(original, lum3, Neighbours8(k, width), 0)
        lift30000 == GrooveLift30000(m, lum3, sumDiff3)
        lifted(p) == ToUint8Clamped(Min(255 * 30000, p * 30000 + lift30000), 30000)
    IN  IF ~inLoop \/ m < 50 THEN pixels
        ELSE IF lum3 < 330 \/ sumDiff3 > 360
        THEN [pixels EXCEPT ![idx] = lifted(pixels[idx]),
                            ![idx + 1] = lifted(pixels[idx + 1]),
                            ![idx + 2] = lifted(pixels[idx + 2])]
        ELSE pixels

RECURSIVE GrooveErosionLoop(_, _, _, _, _, _, _)
GrooveErosionLoop(pixels, original, mask, strengthM, k, width, height) ==
    IF k >= width * height THEN pixels
    ELSE LET next == GrooveErosionAt(pixels, original, mask, strengthM, k, width, height)
         IN  IF next = pixels
             THEN GrooveErosionLoop(pixels, original, mask, strengthM, k + 1, width, height)
             ELSE GrooveErosionLoop(next, original, mask, strengthM, k + 1, width, height)

applyGrooveErosion(pixels, mask, t, width, height) ==
    GrooveErosionLoop(pixels, pixels, mask, Min(1000, ((t - 180) * 14) \div 10), 0,
                      width, height)

\* one iteration of the loops of applyEdgeSoftening, at pixel k
EdgeSofteningAt(pixels, original, mask, strengthM, k, width, height) ==
    LET x == k % width
        y == k \div width
        idx == k * 4
        m == (mask[k] * strengthM) \div 1000
        inLoop == 1 <= x /\ x < width - 1 /\ 1 <= y /\ y < height - 1
        rightIdx == (y * width + (x + 1)) * 4
        belowIdx == ((y + 1) * width + x) * 4
        lum3 == Lum3(original, k)
        gradient3 == Abs(lum3 - Lum3(original, rightIdx \div 4))
                         + Abs(lum3 - Lum3(original, belowIdx \div 4))
        \* blendStrength = m * Math.min(1, gradient / 50) * 0.3, over 500000
        blend500000 == m * Min(150, gradient3)
        avg3(c) == original[idx + c] + original[rightIdx + c] + original[belowIdx + c]
        blend(p, sum3) ==
            Max(0, Min(255, RoundDiv(p * 1500000 + (sum3 - 3 * p) * blend500000, 1500000)))
    IN  IF ~inLoop \/ m < 80 THEN pixels
        ELSE IF gradient3 > 30
        THEN [pixels EXCEPT ![idx] = blend(pixels[idx], avg3(0)),
                            ![idx + 1] = blend(pixels[idx + 1], avg3(1)),
                            ![idx + 2] = blend(pixels[idx + 2], avg3(2))]
        ELSE pixels

RECURSIVE EdgeSofteningLoop(_, _, _, _, _, _, _)
EdgeSofteningLoop(pixels, original, mask, strengthM, k, width, height) ==
    IF k >= width * height THEN pixels
    ELSE LET next == EdgeSofteningAt(pixels, original, mask, strengthM, k, width, height)
         IN  IF next = pixels
             THEN EdgeSofteningLoop(pixels, original, mask, strengthM, k + 1, width, height)
             ELSE EdgeSofteningLoop(next, original, mask, strengthM, k + 1, width, height)

applyEdgeSoftening(pixels, mask, t, width, height) ==
    EdgeSofteningLoop(pixels, pixels, mask, Min(1000, ((t - 250) * 15) \div 10), 0,
                      width, height)

-----------------------------------------------------------------------------
(* The micro-cracks and their generator *)

\* the digits of a number below 2^33 in base 2^11, least significant first
Limbs(v) == <<v % 2048, (v \div 2048) % 2048, v \div 4194304>>

\* the number of bits of v
RECURSIVE BitLength(_)
BitLength(v) == IF v = 0 THEN 0 ELSE 1 + BitLength(v \div 2)

RECURSIVE Pow2(_)
Pow2(e) == IF e = 0 THEN 1 ELSE 2 * Pow2(e - 1)

\* v rounded to a multiple of 2^e, ties to even, then divided by 2^e
RoundShift(v, e) ==
    LET q == v \div Pow2(e)
        r == v % Pow2(e)
        half == Pow2(e) \div 2
    IN  IF e = 0 \/ r < half THEN q
        ELSE IF r > half THEN q + 1
        ELSE IF q % 2 = 0 THEN q ELSE q + 1

\* the digits in base 2^11 of the product of two numbers below 2^31 given by
\* their digits; the last digit holds all that is left
ProductDigits(a, b) ==
    LET c0 == a[1] * b[1]
        c1 == a[1] * b[2] + a[2] * b[1] + c0 \div 2048
        c2 == a[1] * b[3] + a[2] * b[2] + a[3] * b[1] + c1 \div 2048
        c3 == a[2] * b[3] + a[3] * b[2] + c2 \div 2048
        c4 == a[3] * b[3] + c3 \div 2048
    IN  <<c0 % 2048, c1 % 2048, c2 % 2048, c3 % 2048, c4>>

\* the low 31 bits of a number given by its digits, and the bits above them
Low31(d) == d[1] + d[2] * 2048 + (d[3] % 512) * 4194304

High(d) == d[3] \div 512 + d[4] * 4 + d[5] * 8192

\* the number of low bits that a double drops of high * 2^31 + low
DroppedBits(low, high) ==
    Max(0, (IF high = 0 THEN BitLength(low) ELSE 31 + BitLength(high)) - 53)

\* the low 31 bits of the product as a double holds it, in units of 2^e
RoundedProduct(low, e) == IF e = 0 THEN low ELSE RoundShift(low, e) % Pow2(31 - e)

\* the low 31 bits of the double (product + 12345), in units of 2^e, the product
\* given in these units: the sum is rounded to the unit, ties to even
AddIncrement(prodUnits, e) ==
    LET incr == 12345 \div Pow2(e)
        rest == 12345 % Pow2(e)
        half == Pow2(e) \div 2
        up == IF e = 0 \/ rest < half THEN 0
              ELSE IF rest > half THEN 1
              ELSE IF (prodUnits + incr) % 2 = 0 THEN 0 ELSE 1
    IN  IF e > 0 THEN (prodUnits + incr + up) % Pow2(31 - e)
        ELSE IF prodUnits >= 2147471303 THEN prodUnits - 2147471303
        ELSE prodUnits + 12345

LcgOfProduct(low, e) == AddIncrement(RoundedProduct(low, e), e) * Pow2(e)

LcgOfDigits(d) == LcgOfProduct(Low31(d), DroppedBits(Low31(d), High(d)))

\* rng = (rng * 1103515245 + 12345) & 0x7fffffff, in double arithmetic: the
\* product and the sum are each rounded to 53 significant bits, and the low 31
\* bits of the result are kept
nextRng(rng) == LcgOfDigits(ProductDigits(Limbs(rng), Limbs(1103515245)))

\* rng / 0x7fffffff, in millionths
RandU(rng) == (rng \div 2147483) * 1000 + ((rng % 2147483) * 1000) \div 2147483

\* pixels[idx .. idx + 2] = Math.max(0, pixels[..] - darken); darken is over 1000000
Darken(pixels, idx, darken) ==
    [pixels EXCEPT
        ![idx] = ToUint8Clamped(Max(0, pixels[idx] * 1000000 - darken), 1000000),
        ![idx + 1] = ToUint8Clamped(Max(0, pixels[idx + 1] * 1000000 - darken), 1000000),
        ![idx + 2] = ToUint8Clamped(Max(0, pixels[idx + 2] * 1000000 - darken), 1000000)]

\* the loop over the length of one crack, from step s: the buffer and the
\* generator after it
RECURSIVE CrackSteps(_, _, _, _, _, _, _, _, _, _, _)
RECURSIVE CrackStepAt(_, _, _, _, _, _, _, _, _, _, _, _, _)
CrackStepAt(pixels, rng, s, length, x, y, dxM, dyM, m, width, height, cx, cy) ==
    IF cx < 0 \/ cx >= width \/ cy < 0 \/ cy >= height
    THEN [pixels |-> pixels, rng |-> rng]
    ELSE \* darken = m * (35 + nextRand() * 15)
         CrackSteps(Darken(pixels, (cy * width + cx) * 4,
                           m * (35000 + (15 * RandU(nextRng(rng))) \div 1000)),
                    nextRng(rng), s + 1, length, x, y, dxM, dyM, m, width, height)

CrackSteps(pixels, rng, s, length, x, y, dxM, dyM, m, width, height) ==
    IF s >= length THEN [pixels |-> pixels, rng |-> rng]
    ELSE CrackStepAt(pixels, rng, s, length, x, y, dxM, dyM, m, width, height,
                     RoundDiv(1000 * x + dxM * s, 1000), RoundDiv(1000 * y + dyM * s, 1000))

\* angle = baseAngle + (nextRand() - 0.5) * 0.5, then the crack; rng is the
\* generator after this nextRand()
CrackFromBaseAngle(pixels, rng, length, x, y, baseAngleM, m, width, height) ==
    CrackSteps(pixels, rng, 0, length, x, y,
               CosM(baseAngleM + (RandU(rng) - 500000) \div 2000),
               SinM(baseAngleM + (RandU(rng) - 500000) \div 2000), m, width, height)

\* baseAngle, given localLum; rng is the generator after the length was drawn
CrackOfLength(pixels, rng, length, x, y, localLum, m, width, height) ==
    IF Abs(localLum) > 20
    THEN CrackFromBaseAngle(pixels, nextRng(rng), length, x, y, Atan2M(localLum, 30), m,
                            width, height)
    ELSE CrackFromBaseAngle(pixels, nextRng(nextRng(rng)), length, x, y,
                            ((RandU(nextRng(rng)) \div 1000) * 3142) \div 1000, m,
                            width, height)

\* the body of `if (nextRand() < 0.035 * strength)`; rng is the generator after
\* that nextRand()
CrackOrNone(pixels, rng, strengthM, x, y, m, width, height) ==
    IF RandU(rng) < 35 * strengthM
    THEN CrackOfLength(pixels, nextRng(rng), (RandU(nextRng(rng)) * 5) \div 1000000 + 2, x, y,
                       IF y > 0 /\ x > 0
                       THEN pixels[((y - 1) * width + x) * 4]
                                - pixels[(y * width + (x - 1)) * 4]
                       ELSE 0,
                       m, width, height)
    ELSE [pixels |-> pixels, rng |-> rng]

\* one iteration of the loops of applyMicroCracks, at pixel k
MicroCracksAt(pixels, rng, mask, strengthM, k, width, height) ==
    IF (k % width) % 2 # 0 \/ (k \div width) % 2 # 0 \/ (mask[k] * strengthM) \div 1000 < 100
    THEN [pixels |-> pixels, rng |-> rng]
    ELSE CrackOrNone(pixels, nextRng(rng), strengthM, k % width, k \div width,
                     (mask[k] * strengthM) \div 1000, width, height)

\* the inner loop, over the pixels k .. rowEnd - 1 of one row
RECURSIVE MicroCracksRow(_, _, _, _, _, _, _)
MicroCracksRow(st, mask, strengthM, k, rowEnd, width, height) ==
    IF k >= rowEnd THEN st
    ELSE LET next == MicroCracksAt(st.pixels, st.rng, mask, strengthM, k, width, height)
         IN  IF next = st
             THEN MicroCracksRow(st, mask, strengthM, k + 1, rowEnd, width, height)
             ELSE MicroCracksRow(next, mask, strengthM, k + 1, rowEnd, width, height)

\* the outer loop, from the row that starts at pixel k
RECURSIVE MicroCracksLoop(_, _, _, _, _, _)
MicroCracksLoop(st, mask, strengthM, k, width, height) ==
    IF k >= width * height THEN st.pixels
    ELSE LET next == MicroCracksRow(st, mask, strengthM, k, k + width, width, height)
         IN  IF next = st THEN MicroCracksLoop(st, mask, strengthM, k + width, width, height)
             ELSE MicroCracksLoop(next, mask, strengthM, k + width, width, height)

\* every call starts the generator from the seed
seed == 42

applyMicroCracks(pixels, mask, t, width, height) ==
    MicroCracksLoop([pixels |-> pixels, rng |-> seed], mask,
                    Min(1000, ((t - 550) * 22) \div 10), 0, width, height)

-----------------------------------------------------------------------------
(* The aging overlay and the pipeline *)

\* the alpha (0..255) of the vignette's gradient at pixel k: transparent inside
\* width * 0.25 of the centre, vignetteAlpha * 0.3 at 70% of the way to
\* width * 0.65, vignetteAlpha from there on
VignetteAlpha8(t, k, width, height) ==
    LET x == k % width
        y == k \div width
        vignetteAlphaU == (t - 300) * 120
        distM == Sqrt((Abs(2 * x + 1 - width) * 500) * (Abs(2 * x + 1 - width) * 500)
                        + (Abs(2 * y + 1 - height) * 500) * (Abs(2 * y + 1 - height) * 500))
        stopM == Max(0, Min(1000, ((distM - 250 * width) * 1000) \div (400 * width)))
        innerU == (vignetteAlphaU * 3) \div 10
        alphaU == IF stopM <= 700 THEN (innerU * stopM) \div 700
                  ELSE innerU + ((vignetteAlphaU - innerU) * (stopM - 700)) \div 300
    IN  RoundDiv(alphaU * 255, 1000000)

\* the flat wash: rgba(45, 35, 25, t * 0.06)
WashOverlay(bitmap, t, width, height) ==
    fillRect(bitmap, <<45, 35, 25>>,
             [k \in PixelsOf(width, height) |-> RoundDiv(t * 6 * 255, 100000)], width, height)

\* the fillRect of the radial gradient
VignetteFill(bitmap, t, width, height) ==
    fillRect(bitmap, <<0, 0, 0>>,
             [k \in PixelsOf(width, height) |-> VignetteAlpha8(t, k, width, height)],
             width, height)

\* the vignette, for t > 0.3
VignetteOver03(bitmap, t, width, height) ==
    IF t > 300 THEN VignetteFill(bitmap, t, width, height) ELSE bitmap

\* the fillRect of rgba(60, 40, 20, (t - 0.6) * 0.08)
TintFill(bitmap, t, width, height) ==
    fillRect(bitmap, <<60, 40, 20>>,
             [k \in PixelsOf(width, height) |-> RoundDiv((t - 600) * 8 * 255, 100000)],
             width, height)

\* the tint, for t > 0.6
TintOver06(bitmap, t, width, height) ==
    IF t > 600 THEN TintFill(bitmap, t, width, height) ELSE bitmap

applyAgingOverlay(bitmap, t, width, height) ==
    TintOver06(VignetteOver03(WashOverlay(bitmap, t, width, height), t, width, height),
               t, width, height)

\* mutant: smoothing waits for the threshold of edge softening
SmoothingOver012_late(pixels, mask, t, width, height) ==
    IF t > 250 THEN applyGaussianSmoothing(pixels, mask, t, width, height) ELSE pixels

\* the stages of applyDeterioration that a threshold of t gates
SmoothingOver012(pixels, mask, t, width, height) ==
    IF t > 120 THEN applyGaussianSmoothing(pixels, mask, t, width, height) ELSE pixels

ErosionOver018(pixels, mask, t, width, height) ==
    IF t > 180 THEN applyGrooveErosion(pixels, mask, t, width, height) ELSE pixels

SofteningOver025(pixels, mask, t, width, height) ==
    IF t > 250 THEN applyEdgeSoftening(pixels, mask, t, width, height) ELSE pixels

CracksOver055(pixels, mask, t, width, height) ==
    IF t > 550 THEN applyMicroCracks(pixels, mask, t, width, height) ELSE pixels

\* applyDeterioration from getImageData on: `drawn` is the bitmap after drawImage
DeteriorateDrawn(drawn, treadMask, t, width, height) ==
    applyAgingOverlay(
        putImageData(
            CracksOver055(
                SofteningOver025(
                    ErosionOver018(
                        SmoothingOver012(
                            applyContrastReduction(getImageData(drawn, width, height),
                                                   treadMask, t, width, height),
                            treadMask, t, width, height),
                        treadMask, t, width, height),
                    treadMask, t, width, height),
                treadMask, t, width, height),
            width, height),
        t, width, height)

\* the bitmap of the canvas after applyDeterioration(ctx, originalImage, options);
\* options.t is in thousandths
applyDeterioration(bitmap, originalImage, opts) ==
    IF opts.t <= 10 THEN drawImage(bitmap, originalImage, opts.width, opts.height)
    ELSE DeteriorateDrawn(drawImage(bitmap, originalImage, opts.width, opts.height),
                          createTreadMask(opts.width, opts.height, opts.unevenWear),
                          opts.t, opts.width, opts.height)

\* the calls applyDeterioration makes for options.t (in thousandths), in the
\* order it makes them; "vignette" and "tint" are the two gated fillRects of
\* applyAgingOverlay
StagesCalled(t) ==
    IF t <= 10 THEN <<"drawImage">>
    ELSE <<"drawImage", "getImageData", "applyContrastReduction">>
         \o (IF t > 120 THEN <<"applyGaussianSmoothing">> ELSE <<>>)
         \o (IF t > 180 THEN <<"applyGrooveErosion">> ELSE <<>>)
         \o (IF t > 250 THEN <<"applyEdgeSoftening">> ELSE <<>>)
         \o (IF t > 550 THEN <<"applyMicroCracks">> ELSE <<>>)
         \o <<"putImageData", "applyAgingOverlay">>
         \o (IF t > 300 THEN <<"vignette">> ELSE <<>>)
         \o (IF t > 600 THEN <<"tint">> ELSE <<>>)

\* the values of t rendered, in thousandths: below the first threshold, below
\* the threshold of smoothing, between the thresholds of erosion and edge
\* softening, of the vignette and the cracks, of the cracks and the second tint,
\* and above them all
WearLevels == {0, 50, 220, 450, 580, 800}

DeteriorationOptionsSet ==
    [t : WearLevels, unevenWear : BOOLEAN, width : {CanvasSize}, height : {CanvasSize}]

InitCanvas ==
    /\ args = NoCall
    /\ ret = NoRet
    /\ HookUnmounted(Epoch)
    /\ canvas = BlankCanvas(CanvasSize, CanvasSize)
    /\ imageRef \in Images
    /\ options = Null
    /\ calls = 0
    /\ PagesUnmounted

\* TireViewer's img.onload: canvas.width = size and canvas.height = size clear the
\* bitmap, then render() calls applyDeterioration with the props it closed over
ImgOnload ==
    \E opts \in DeteriorationOptionsSet :
        /\ canvas' = applyDeterioration(BlankCanvas(opts.width, opts.height),
                                        imageRef, opts)
        /\ options' = opts
        /\ calls' = 1
        /\ UNCHANGED <<imageRef, pureVars, hookVars, pageVars>>

\* TireViewer's requestAnimationFrame(render) once the image is there:
\* applyDeterioration on the canvas as the last call left it
AnimationFrame ==
    \E opts \in DeteriorationOptionsSet :
        /\ calls > 0
        /\ calls < MaxCalls
        /\ canvas' = applyDeterioration(canvas, imageRef, opts)
        /\ options' = opts
        /\ calls' = calls + 1
        /\ UNCHANGED <<imageRef, pureVars, hookVars, pageVars>>

NextCanvas == ImgOnload \/ AnimationFrame

SpecCanvas == InitCanvas /\ [][NextCanvas]_vars

\* TireViewer with the callbacks it leaves pending.  Every change of t or
\* unevenWear makes a new `render`, and with it both effects run again: the load
\* effect makes a new Image whose onload calls the render of that moment (no
\* cleanup detaches the Images made before), and the re-render effect cancels
\* the frame requested before and requests one for the new render.  The loads
\* pending are kept as the set of the renders they call: two loads that call the
\* same render leave the canvas as one of them does.  The photo is the opaque
\* one, so that the bitmap is what the last call drew.
ViewerLevels == {0, 450}

ViewerProps == [t : ViewerLevels, unevenWear : BOOLEAN]

\* the options render hands to applyDeterioration: the t and unevenWear it
\* closed over, the size the canvas has
RenderOptions(closure) ==
    [t |-> closure.t, unevenWear |-> closure.unevenWear,
     width |-> CanvasSize, height |-> CanvasSize]

\* the component as mounted: both effects have run once
InitViewer ==
    /\ args = NoCall
    /\ ret = NoRet
    /\ HookUnmounted(Epoch)
    /\ canvas = BlankCanvas(CanvasSize, CanvasSize)
    /\ imageRef = "none"
    /\ options = Null
    /\ calls = 0
    /\ \E props \in ViewerProps :
          viewer = [mounted |-> TRUE, imageSrc |-> "photo", t |-> props.t,
                    unevenWear |-> props.unevenWear, loads |-> {props}, frame |-> props]
    /\ resultsPage = Unmounted
    /\ scanPage = Unmounted

\* the parent renders TireViewer with another t or unevenWear
ViewerPropsChange ==
    /\ viewer.mounted
    /\ \E props \in ViewerProps :
          /\ props # [t |-> viewer.t, unevenWear |-> viewer.unevenWear]
          /\ viewer' = [viewer EXCEPT !.t = props.t, !.unevenWear = props.unevenWear,
                                      !.loads = @ \cup {props}, !.frame = props]
    /\ UNCHANGED <<pureVars, hookVars, canvasVars, resultsPage, scanPage>>

\* img.onload of one of the Images: imageRef, the size of the canvas (which
\* clears it), and render() as the effect closed over it
ViewerImgOnload ==
    /\ viewer.mounted
    /\ \E closure \in viewer.loads :
          /\ imageRef' = viewer.imageSrc
          /\ canvas' = applyDeterioration(BlankCanvas(CanvasSize, CanvasSize),
                                          viewer.imageSrc, RenderOptions(closure))
          /\ options' = RenderOptions(closure)
          /\ calls' = 1
          /\ viewer' = [viewer EXCEPT !.loads = @ \ {closure}]
    /\ UNCHANGED <<pureVars, hookVars, resultsPage, scanPage>>

\* the frame requested last: render() returns at once while no image is loaded
ViewerAnimationFrame ==
    /\ viewer.mounted
    /\ viewer.frame # Null
    /\ IF imageRef = "none"
       THEN UNCHANGED <<canvas, options, calls>>
       ELSE /\ canvas' = applyDeterioration(canvas, imageRef, RenderOptions(viewer.frame))
            /\ options' = RenderOptions(viewer.frame)
            /\ calls' = Min(calls + 1, MaxCalls)
    /\ viewer' = [viewer EXCEPT !.frame = Null]
    /\ UNCHANGED <<imageRef, pureVars, hookVars, resultsPage, scanPage>>

NextViewer == ViewerPropsChange \/ ViewerImgOnload \/ ViewerAnimationFrame

SpecViewer == InitViewer /\ [][NextViewer]_vars

\* applyDeterioration as a function of its arguments, on a canvas just cleared.
\* The values of t, in thousandths: each threshold of the pipeline, and a value
\* inside each interval the thresholds cut [0, 1] into
StageLevels ==
    {0, 10, 50, 120, 150, 180, 220, 250, 280, 300, 450, 550, 580, 600, 800, 1000}

StageInputs ==
    [fn : {"applyDeterioration"}, originalImage : Images,
     options : [t : StageLevels, unevenWear : BOOLEAN,
                width : {CanvasSize}, height : {CanvasSize}]]

InitStages ==
    /\ args \in StageInputs
    /\ ret = NoRet
    /\ HookUnmounted(Epoch)
    /\ CanvasUnmounted
    /\ PagesUnmounted

CallApplyDeterioration ==
    /\ args.fn = "applyDeterioration"
    /\ ret = NoRet
    /\ ret' = [fn |-> args.fn,
               calls |-> StagesCalled(args.options.t),
               value |-> applyDeterioration(
                             BlankCanvas(args.options.width, args.options.height),
                             args.originalImage, args.options)]
    /\ UNCHANGED <<args, hookVars, canvasVars, pageVars>>

NextStages == CallApplyDeterioration

SpecStages == InitStages /\ [][NextStages]_vars

\* The per-pixel passes as functions of the buffer getImageData hands them.
\* The buffers: the two photos, and opaque flat greys around the thresholds of
\* the groove erosion (100, 110 and 130)
GreyLevels == {40, 99, 100, 105, 109, 110, 129, 130, 150, 200}

GreyBuffer(grey, width, height) ==
    [i \in BytesOf(width, height) |-> IF i % 4 = 3 THEN 255 ELSE grey]

PassBuffers ==
    {getImageData(ImageData(img, CanvasSize, CanvasSize), CanvasSize, CanvasSize) :
        img \in Images}
        \cup {GreyBuffer(grey, CanvasSize, CanvasSize) : grey \in GreyLevels}

\* the values of t, in thousandths: the smoothing with radius 2 (0.3 and 0.45)
\* and radius 3, the other passes from weak to full strength
PassLevels == {300, 450, 700, 1000}

\* the side of the canvas on which applyMicroCracks draws cracks that meet
CrackSize == 26

CrackBuffers ==
    {getImageData(ImageData("photo", CrackSize, CrackSize), CrackSize, CrackSize),
     GreyBuffer(150, CrackSize, CrackSize)}

PassInputs ==
    [fn : {"applyContrastReduction", "applyGaussianSmoothing", "applyGrooveErosion",
           "applyEdgeSoftening"},
     pixels : PassBuffers, unevenWear : BOOLEAN, t : PassLevels, size : {CanvasSize}]
        \cup [fn : {"applyMicroCracks"}, pixels : CrackBuffers, unevenWear : BOOLEAN,
              t : {700, 1000}, size : {CrackSize}]

InitPasses ==
    /\ args \in PassInputs
    /\ ret = NoRet
    /\ HookUnmounted(Epoch)
    /\ CanvasUnmounted
    /\ PagesUnmounted

\* the mask applyDeterioration hands every pass
PassMask == createTreadMask(args.size, args.size, args.unevenWear)

CallApplyContrastReduction ==
    /\ args.fn = "applyContrastReduction"
    /\ ret = NoRet
    /\ ret' = [fn |-> args.fn,
               value |-> applyContrastReduction(args.pixels, PassMask, args.t,
                                                args.size, args.size)]
    /\ UNCHANGED <<args, hookVars, canvasVars, pageVars>>

CallApplyGaussianSmoothing ==
    /\ args.fn = "applyGaussianSmoothing"
    /\ ret = NoRet
    /\ ret' = [fn |-> args.fn,
               value |-> applyGaussianSmoothing(args.pixels, PassMask, args.t,
                                                args.size, args.size)]
    /\ UNCHANGED <<args, hookVars, canvasVars, pageVars>>

CallApplyGrooveErosion ==
    /\ args.fn = "applyGrooveErosion"
    /\ ret = NoRet
    /\ ret' = [fn |-> args.fn,
               value |-> applyGrooveErosion(args.pixels, PassMask, args.t,
                                            args.size, args.size)]
    /\ UNCHANGED <<args, hookVars, canvasVars, pageVars>>

CallApplyEdgeSoftening ==
    /\ args.fn = "applyEdgeSoftening"
    /\ ret = NoRet
    /\ ret' = [fn |-> args.fn,
               value |-> applyEdgeSoftening(args.pixels, PassMask, args.t,
                                            args.size, args.size)]
    /\ UNCHANGED <<args, hookVars, canvasVars, pageVars>>

CallApplyMicroCracks ==
    /\ args.fn = "applyMicroCracks"
    /\ ret = NoRet
    /\ ret' = [fn |-> args.fn,
               value |-> applyMicroCracks(args.pixels, PassMask, args.t,
                                          args.size, args.size)]
    /\ UNCHANGED <<args, hookVars, canvasVars, pageVars>>

NextPasses ==
    \/ CallApplyContrastReduction
    \/ CallApplyGaussianSmoothing
    \/ CallApplyGrooveErosion
    \/ CallApplyEdgeSoftening
    \/ CallApplyMicroCracks

SpecPasses == InitPasses /\ [][NextPasses]_vars

-----------------------------------------------------------------------------
(* lib/treadEstimator.ts: the tread estimator.  A JavaScript number is a     *)
(* rational or NaN; the buffers drawn below have 4 * width * height bytes,   *)
(* so every division by zero that can happen is 0 / 0.                       *)

NaN == [nan |-> TRUE]

IsNaN(x) == x = NaN

FAdd(a, b) == IF IsNaN(a) \/ IsNaN(b) THEN NaN ELSE RAdd(a, b)

FSub(a, b) == IF IsNaN(a) \/ IsNaN(b) THEN NaN ELSE RSub(a, b)

FMul(a, b) == IF IsNaN(a) \/ IsNaN(b) THEN NaN ELSE RMul(a, b)

\* a / b; 0 / 0 is NaN
FDiv(a, b) ==
    IF IsNaN(a) \/ IsNaN(b) THEN NaN
    ELSE IF b.n = 0 THEN NaN
    ELSE RDiv(a, b)

\* Math.abs
FAbs(a) == IF IsNaN(a) THEN NaN ELSE RAbs(a)

\* Math.min and Math.max: NaN if either argument is
FMin(a, b) == IF IsNaN(a) \/ IsNaN(b) THEN NaN ELSE RMin(a, b)

FMax(a, b) == IF IsNaN(a) \/ IsNaN(b) THEN NaN ELSE RMax(a, b)

\* a comparison with NaN is false
FLt(a, b) == ~IsNaN(a) /\ ~IsNaN(b) /\ RLt(a, b)

FGe(a, b) == ~IsNaN(a) /\ ~IsNaN(b) /\ RLe(b, a)

\* Math.sqrt, to the hundredth below
FSqrt(a) ==
    IF IsNaN(a) \/ a.n < 0 THEN NaN
    ELSE Rat(Sqrt((a.n \div a.d) * 10000 + ((a.n % a.d) * 10000) \div a.d), 100)

\* export const IMAGE_QUALITY_MIN = 0.35
IMAGE_QUALITY_MIN == Rat(35, 100)

\* data[i] * 0.299 + data[i + 1] * 0.587 + data[i + 2] * 0.114, a whole number
\* for the grey pixels (r = g = b) of the buffers drawn below
PixelLum(data, i) == (299 * data[i] + 587 * data[i + 1] + 114 * data[i + 2]) \div 1000

\* data.length / 4
DataPixels(imageData) == Cardinality(DOMAIN imageData.data) \div 4

\* the sum of f[k] over k in lo..hi, and of its squares; the range is halved
\* to keep the evaluation shallow
RECURSIVE SumRange(_, _, _)
SumRange(f, lo, hi) ==
    IF lo > hi THEN 0
    ELSE IF lo = hi THEN f[lo]
    ELSE SumRange(f, lo, (lo + hi) \div 2) + SumRange(f, (lo + hi) \div 2 + 1, hi)

RECURSIVE SumSqRange(_, _, _)
SumSqRange(f, lo, hi) ==
    IF lo > hi THEN 0
    ELSE IF lo = hi THEN f[lo] * f[lo]
    ELSE SumSqRange(f, lo, (lo + hi) \div 2) + SumSqRange(f, (lo + hi) \div 2 + 1, hi)

\* the sum of f[k] over k in 0..(n - 1)
SumFirst(f, n) == SumRange(f, 0, n - 1)

\* the luminance of the pixels of the buffer in the order of the loops
Luminances(imageData) ==
    [k \in 0..(DataPixels(imageData) - 1) |-> PixelLum(imageData.data, 4 * k)]

\* the samples y = 1, 1 + stride, .. below limit - 1 of the two loops over an image
StrideSamples(limit, stride) == {v \in 1..(limit - 2) : (v - 1) % stride = 0}

\* the number of these samples
StrideCount(limit, stride) == IF limit < 3 THEN 0 ELSE (limit - 3) \div stride + 1

\* the Laplacians of the stride-3 samples in the order of the loops
Laplacians(imageData) ==
    LET data == imageData.data
        width == imageData.width
        nx == StrideCount(width, 3)
        ny == StrideCount(imageData.height, 3)
        at(x, y) == PixelLum(data, (y * width + x) * 4)
    IN  [i \in 0..(nx * ny - 1) |->
            LET x == 1 + 3 * (i % nx)
                y == 1 + 3 * (i \div nx)
            IN  at(x, y - 1) + at(x, y + 1) + at(x - 1, y) + at(x + 1, y) - 4 * at(x, y)]

\* sumSq / count - mean * mean, with mean = sum / count
VarianceOf(sum, sumSq, count) == Rat(count * sumSq - sum * sum, count * count)

calculateLaplacianVariance(imageData) ==
    LET laplacian == Laplacians(imageData)
        count == Cardinality(DOMAIN laplacian)
    IN  IF count = 0 THEN R(0)
        ELSE VarianceOf(SumRange(laplacian, 0, count - 1),
                        SumSqRange(laplacian, 0, count - 1), count)

assessImageQuality(imageData) ==
    LET totalPixels == imageData.width * imageData.height
        lum == Luminances(imageData)
        n == DataPixels(imageData)
        totalLum == SumFirst(lum, n)
        avgBrightness == FDiv(FDiv(R(totalLum), R(totalPixels)), R(255))
        brightnessScore ==
            IF FLt(Rat(15, 100), avgBrightness) /\ FLt(avgBrightness, Rat(85, 100))
            THEN RSub(R(1), RMul(RAbs(RSub(avgBrightness, Rat(1, 2))), Rat(3, 2)))
            ELSE Rat(3, 10)
        \* the sum of (lum - avgLum) ** 2 over the n pixels of data, avgLum being
        \* totalLum / totalPixels; with n = totalPixels it is
        \* (n * sum of lum ** 2 - totalLum ** 2) / n, and 0 for an empty buffer
        sumSqDiff ==
            IF n = 0 THEN R(0)
            ELSE Rat(n * SumSqRange(lum, 0, n - 1) - totalLum * totalLum, n)
        stdDev == FSqrt(FDiv(sumSqDiff, R(totalPixels)))
        contrastScore == FMin(R(1), FDiv(stdDev, R(60)))
        blurVar == calculateLaplacianVariance(imageData)
        sharpnessScore == FMin(R(1), FDiv(blurVar, R(500)))
        overall == FAdd(FAdd(FMul(brightnessScore, Rat(25, 100)),
                             FMul(contrastScore, Rat(35, 100))),
                        FMul(sharpnessScore, Rat(40, 100)))
    IN  [blur |-> sharpnessScore, brightness |-> brightnessScore,
         contrast |-> contrastScore, overall |-> overall,
         acceptable |-> FGe(overall, IMAGE_QUALITY_MIN)]

calculateEdgeDensity(imageData) ==
    LET data == imageData.data
        width == imageData.width
        height == imageData.height
        threshold == 30
        at(x, y) == PixelLum(data, (y * width + x) * 4)
        edges == {p \in StrideSamples(width, 2) \X StrideSamples(height, 2) :
                     LET gx == Abs(at(p[1] + 1, p[2]) - at(p[1] - 1, p[2]))
                         gy == Abs(at(p[1], p[2] + 1) - at(p[1], p[2] - 1))
                     IN  gx * gx + gy * gy > threshold * threshold}
        edgeCount == Cardinality(edges)
        sampledPixels == Rat((height - 2) * (width - 2), 4)
    IN  FMin(R(1), FMul(FDiv(R(edgeCount), sampledPixels), Rat(25, 10)))

\* the origins 0, 16, .. below limit - 8 of the loops over the blocks
BlockOrigins(limit) == {b \in 0..(limit - 9) : b % 16 = 0}

\* the variance of the luminance in the 8 x 8 block at <<bx, by>>
BlockVariance(imageData, bx, by) ==
    LET blockSize == 8
        n == blockSize * blockSize
        lum == [c \in 0..(n - 1) |->
                   PixelLum(imageData.data,
                            ((by + (c \div blockSize)) * imageData.width + (bx + (c % blockSize))) * 4)]
    IN  VarianceOf(SumRange(lum, 0, n - 1), SumSqRange(lum, 0, n - 1), n)

RECURSIVE TotalVariance(_, _)
TotalVariance(imageData, blocks) ==
    IF blocks = {} THEN R(0)
    ELSE LET b == CHOOSE c \in blocks : TRUE
         IN  RAdd(BlockVariance(imageData, b[1], b[2]),
                  TotalVariance(imageData, blocks \ {b}))

calculateTextureVariance(imageData) ==
    LET blocks == BlockOrigins(imageData.width) \X BlockOrigins(imageData.height)
        blockCount == Cardinality(blocks)
        avgVariance == IF blockCount > 0
                       THEN RDiv(TotalVariance(imageData, blocks), R(blockCount))
                       ELSE R(0)
    IN  RMin(R(1), RDiv(avgVariance, R(1200)))

calculateContrastRatio(imageData) ==
    LET data == imageData.data
        sampled == {PixelLum(data, i) : i \in {j \in DOMAIN data : j % 16 = 0}}
        min == IF sampled = {} THEN 255
               ELSE Min(255, CHOOSE v \in sampled : \A u \in sampled : v <= u)
        max == IF sampled = {} THEN 0
               ELSE Max(0, CHOOSE v \in sampled : \A u \in sampled : v >= u)
    IN  Rat(max - min, 255)

\* mutant: the thresholds of HEALTHY and MODERATE are one tenth higher
signalToBucket_shifted(signal) ==
    IF FGe(signal, Rat(7, 10)) THEN "NEW"
    ELSE IF FGe(signal, Rat(6, 10)) THEN "HEALTHY"
    ELSE IF FGe(signal, Rat(45, 100)) THEN "MODERATE"
    ELSE IF FGe(signal, Rat(2, 10)) THEN "LOW"
    ELSE "CRITICAL"

signalToBucket(signal) ==
    IF FGe(signal, Rat(7, 10)) THEN "NEW"
    ELSE IF FGe(signal, Rat(5, 10)) THEN "HEALTHY"
    ELSE IF FGe(signal, Rat(35, 100)) THEN "MODERATE"
    ELSE IF FGe(signal, Rat(2, 10)) THEN "LOW"
    ELSE "CRITICAL"

calculateConfidence(quality, signal) ==
    LET base == FAdd(Rat(55, 100), FMul(quality.overall, Rat(30, 100)))
        extremity == FMul(FAbs(FSub(signal, Rat(5, 10))), R(2))
        confidence == FAdd(base, FMul(extremity, Rat(5, 100)))
    IN  FMax(Rat(55, 100), FMin(Rat(90, 100), confidence))

\* the combined signal of estimateTreadBucket
TreadSignal(imageData) ==
    FAdd(FAdd(FMul(calculateEdgeDensity(imageData), Rat(45, 100)),
              FMul(calculateTextureVariance(imageData), Rat(35, 100))),
         FMul(calculateContrastRatio(imageData), Rat(20, 100)))

\* the bucket, range and confidence for a signal and a quality
EstimateOf(quality, treadSignal) ==
    [bucket |-> signalToBucket(treadSignal),
     depthRange32nds |-> TREAD_BUCKETS[signalToBucket(treadSignal)],
     confidence |-> calculateConfidence(quality, treadSignal)]

estimateTreadBucket(imageData) ==
    EstimateOf(assessImageQuality(imageData), TreadSignal(imageData))

-----------------------------------------------------------------------------
(* The tread estimator's calls *)

\* the side of the largest pixel buffer drawn
EstimateSize == 10
\* signals and quality scores are drawn on a grid of 1/UnitSteps
UnitSteps == 20

UnitGrid == {Rat(k, UnitSteps) : k \in 0..UnitSteps}

\* grey photos: an even surface, deep grooves two pixels wide, a checkerboard of
\* tread blocks, shallow grooves, and an underexposed surface
PhotoKinds == {"flat", "grooves", "blocks", "faint", "dark"}

GreyAt(kind, x, y) ==
    CASE kind = "flat" -> 102
      [] kind = "grooves" -> IF (x \div 2) % 2 = 0 THEN 51 ELSE 204
      [] kind = "blocks" -> IF ((x \div 2) + (y \div 2)) % 2 = 0 THEN 0 ELSE 255
      [] kind = "faint" -> IF (x \div 2) % 2 = 0 THEN 100 ELSE 110
      [] OTHER -> 20

\* the ImageData of a photo: data holds 4 * width * height bytes
PixelBuffer(kind, width, height) ==
    [data |-> [i \in 0..(4 * width * height - 1) |->
                  IF i % 4 = 3 THEN 255
                  ELSE GreyAt(kind, (i \div 4) % width, (i \div 4) \div width)],
     width |-> width, height |-> height]

\* buffers without area, small ones, and one that holds an 8 x 8 block
BufferSizes ==
    {<<0, 0>>, <<0, 4>>, <<4, 0>>, <<4, 4>>, <<5, 3>>, <<EstimateSize, EstimateSize>>}

PixelBuffers == {PixelBuffer(kind, s[1], s[2]) : kind \in PhotoKinds, s \in BufferSizes}

EstimateInputs ==
    [fn : {"estimateTreadBucket", "assessImageQuality"}, imageData : PixelBuffers]
        \cup [fn : {"signalToBucket"}, signal : UnitGrid]
        \cup [fn : {"calculateConfidence"}, quality : [overall : UnitGrid],
              signal : UnitGrid]

InitEstimate ==
    /\ args \in EstimateInputs
    /\ ret = NoRet
    /\ HookUnmounted(Epoch)
    /\ CanvasUnmounted
    /\ PagesUnmounted

CallEstimateTreadBucket ==
    /\ args.fn = "estimateTreadBucket"
    /\ ret = NoRet
    /\ ret' = [fn |-> args.fn, value |-> estimateTreadBucket(args.imageData)]
    /\ UNCHANGED <<args, hookVars, canvasVars, pageVars>>

CallAssessImageQuality ==
    /\ args.fn = "assessImageQuality"
    /\ ret = NoRet
    /\ ret' = [fn |-> args.fn, value |-> assessImageQuality(args.imageData)]
    /\ UNCHANGED <<args, hookVars, canvasVars, pageVars>>

CallSignalToBucket ==
    /\ args.fn = "signalToBucket"
    /\ ret = NoRet
    /\ ret' = [fn |-> args.fn, value |-> signalToBucket(args.signal)]
    /\ UNCHANGED <<args, hookVars, canvasVars, pageVars>>

CallCalculateConfidence ==
    /\ args.fn = "calculateConfidence"
    /\ ret = NoRet
    /\ ret' = [fn |-> args.fn, value |-> calculateConfidence(args.quality, args.signal)]
    /\ UNCHANGED <<args, hookVars, canvasVars, pageVars>>

NextEstimate ==
    \/ CallEstimateTreadBucket
    \/ CallAssessImageQuality
    \/ CallSignalToBucket
    \/ CallCalculateConfidence

SpecEstimate == InitEstimate /\ [][NextEstimate]_vars

-----------------------------------------------------------------------------
(* lib/llmClient.ts: the explanation generator.  A call in progress is the   *)
(* record `ret`: the promise's state, the await it is suspended at, the      *)
(* number of network requests made and what the network answered.            *)

\* the disclaimer of both the generated and the template explanation
DISCLAIMER ==
    "This is an estimate based on photo analysis and assumptions. For precise measurement, visit a certified tire professional."

\* narratives[bucket] || narratives.MODERATE: the template a bucket selects
TemplateKey(bucket) == IF bucket \in TreadBuckets THEN bucket ELSE "MODERATE"

\* the texts are the template's name with the values interpolated into it
generateFallbackExplanation(a, weatherMode) ==
    LET key == TemplateKey(a.treadEstimate.bucket)
        score == a.healthScore.score
        remainingMonths == a.wearPrediction.remainingMonths
    IN  [narrative |->
             IF key = "CRITICAL" THEN <<"narratives", key>>
             ELSE <<"narratives", key, remainingMonths>>,
         keyInsights |->
             IF key \in {"HEALTHY", "LOW"} THEN <<"insights", key, score, remainingMonths>>
             ELSE <<"insights", key, score>>,
         recommendedAction |-> <<"actions", key>>,
         disclaimer |-> DISCLAIMER]

\* what the chat completion's message content parses to: an object with the
\* three fields, or an object without them (the fields read are undefined)
ParsedContents ==
    {[narrative |-> "generated narrative", keyInsights |-> <<"generated insight">>,
      recommendedAction |-> "generated action"],
     [narrative |-> "undefined", keyInsights |-> "undefined",
      recommendedAction |-> "undefined"]}

\* the explanation built from the parsed content
GeneratedExplanation(content) ==
    [narrative |-> content.narrative, keyInsights |-> content.keyInsights,
     recommendedAction |-> content.recommendedAction, disclaimer |-> DISCLAIMER]

\* a settled or suspended call
Promise(state, awaiting, requests, response, value) ==
    [fn |-> "generateExplanation", state |-> state, awaiting |-> awaiting,
     requests |-> requests, response |-> response, value |-> value]

\* mutant: the error is thrown on
catchError_rethrow(a, weatherMode, requests, response) ==
    Promise("rejected", "none", requests, response, Null)

\* catch (error) { return generateFallbackExplanation(analysis, weatherMode) }
catchError(a, weatherMode, requests, response) ==
    Promise("fulfilled", "none", requests, response,
            generateFallbackExplanation(a, weatherMode))

\* what fetch can settle with: a rejection, a response that is not OK, an OK one
FetchOutcomes == {"network error", "status 401", "status 429", "status 500", "ok"}

\* what an OK response can hold: a body that is no JSON, a body without choices,
\* a message content that is no JSON, a content that parses to null, or a
\* content that parses to an object
ResponseBodies ==
    {"not json", "no choices", "content not json", "content null", "content object"}

\* the analyses the explain route lets through: those of the analyze endpoint,
\* and one whose bucket is none of the five
ExplainAnalyses ==
    {POST(body, Epoch) : body \in {b \in AnalyzeBodies : b.zip = ""}}
        \cup {[POST(body, Epoch) EXCEPT !.treadEstimate.bucket = "WORN"] :
                 body \in {b \in AnalyzeBodies :
                              b.zip = "" /\ b.bucket = "LOW" /\ b.milesPerYear = 12000}}

\* process.env.OPENAI_API_KEY: unset, empty, or a key
ApiKeys == {"undefined", "", "sk-key"}

ExplainInputs ==
    [fn : {"generateExplanation"}, apiKey : ApiKeys, analysis : ExplainAnalyses,
     weatherMode : WeatherModes]

InitExplain ==
    /\ args \in ExplainInputs
    /\ ret = NoRet
    /\ HookUnmounted(Epoch)
    /\ CanvasUnmounted
    /\ PagesUnmounted

\* generateExplanation up to its first await
CallGenerateExplanation ==
    /\ args.fn = "generateExplanation"
    /\ ret = NoRet
    /\ ret' = IF args.apiKey \in {"undefined", ""}
              THEN Promise("fulfilled", "none", 0, "none",
                           generateFallbackExplanation(args.analysis, args.weatherMode))
              ELSE Promise("pending", "fetch", 1, "none", Null)
    /\ UNCHANGED <<args, hookVars, canvasVars, pageVars>>

\* the fetch settles: generateExplanation runs on to response.json()
FetchSettles ==
    /\ ret.fn = "generateExplanation"
    /\ ret.state = "pending"
    /\ ret.awaiting = "fetch"
    /\ \E outcome \in FetchOutcomes :
           ret' = IF outcome = "ok"
                  THEN Promise("pending", "json", ret.requests, outcome, Null)
                  ELSE catchError(args.analysis, args.weatherMode, ret.requests, outcome)
    /\ UNCHANGED <<args, hookVars, canvasVars, pageVars>>

\* response.json() settles: generateExplanation runs to its end
JsonSettles ==
    /\ ret.fn = "generateExplanation"
    /\ ret.state = "pending"
    /\ ret.awaiting = "json"
    /\ \E body \in ResponseBodies :
           IF body = "content object"
           THEN \E content \in ParsedContents :
                    ret' = Promise("fulfilled", "none", ret.requests, body,
                                   GeneratedExplanation(content))
           ELSE ret' = catchError(args.analysis, args.weatherMode, ret.requests, body)
    /\ UNCHANGED <<args, hookVars, canvasVars, pageVars>>

NextExplain == CallGenerateExplanation \/ FetchSettles \/ JsonSettles

SpecExplain == InitExplain /\ [][NextExplain]_vars

-----------------------------------------------------------------------------
(* ResultsPage and its requests to /api/explain *)

\* the most requests of one weather mode kept in flight at once
MaxInFlight == 2

\* what sessionStorage holds when the page mounts
StoredAnalyses ==
    {POST(body, Epoch) :
         body \in {b \in AnalyzeBodies : b.zip = "" /\ b.milesPerYear = 12000}}

\* how a request can settle: fetch rejects, the route answers 400 or 500, or it
\* answers with the explanation
ExplainOutcomes == {"network error", "status 400", "status 500", "ok"}

\* the body of an OK response to the request {analysis, weatherMode}; the
\* weather mode the request was made with is kept with it
ExplainResponse(a, weatherMode) ==
    [weatherMode |-> weatherMode, data |-> generateFallbackExplanation(a, weatherMode)]

\* the page as first rendered: nothing read from sessionStorage yet; `failed`
\* records that a request has settled without an OK response
InitResults ==
    /\ args = NoCall
    /\ ret = NoRet
    /\ HookUnmounted(Epoch)
    /\ CanvasUnmounted
    /\ viewer = Unmounted
    /\ resultsPage = [mounted |-> TRUE, analysis |-> Null, weatherMode |-> "dry",
                      inFlight |-> [m \in WeatherModes |-> 0],
                      explanation |-> Null, explanationLoading |-> FALSE,
                      failed |-> FALSE]
    /\ scanPage = Unmounted

\* fetchExplanation up to its await: the request leaves with the analysis and
\* the weather mode of the render that made the callback
fetchExplanation(page) ==
    [page EXCEPT !.explanationLoading = TRUE,
                 !.inFlight[page.weatherMode] = @ + 1]

\* the mount effect stores the analysis; the effect of the next render calls
\* fetchExplanation
ResultsLoadAnalysis ==
    /\ resultsPage.mounted
    /\ resultsPage.analysis = Null
    /\ \E a \in StoredAnalyses :
          resultsPage' = fetchExplanation([resultsPage EXCEPT !.analysis = a])
    /\ UNCHANGED <<pureVars, hookVars, canvasVars, viewer, scanPage>>

\* the weather toggle: fetchExplanation is made anew and the effect calls it;
\* nothing aborts the requests made before
ResultsSetWeatherMode ==
    /\ resultsPage.mounted
    /\ resultsPage.analysis # Null
    /\ \E mode \in WeatherModes :
          /\ mode # resultsPage.weatherMode
          /\ resultsPage.inFlight[mode] < MaxInFlight
          /\ resultsPage' = fetchExplanation([resultsPage EXCEPT !.weatherMode = mode])
    /\ UNCHANGED <<pureVars, hookVars, canvasVars, viewer, scanPage>>

\* one of the requests settles and its fetchExplanation runs to the end:
\* setExplanation when the response is OK, and setExplanationLoading(false)
\* in every case
ExplainSettles ==
    /\ resultsPage.mounted
    /\ \E mode \in WeatherModes, outcome \in ExplainOutcomes :
          /\ resultsPage.inFlight[mode] > 0
          /\ resultsPage' =
                 [resultsPage EXCEPT
                    !.inFlight[mode] = @ - 1,
                    !.explanation = IF outcome = "ok"
                                    THEN ExplainResponse(resultsPage.analysis, mode)
                                    ELSE @,
                    !.explanationLoading = FALSE,
                    !.failed = @ \/ outcome # "ok"]
    /\ UNCHANGED <<pureVars, hookVars, canvasVars, viewer, scanPage>>

NextResults == ResultsLoadAnalysis \/ ResultsSetWeatherMode \/ ExplainSettles

SpecResults == InitResults /\ [][NextResults]_vars

-----------------------------------------------------------------------------
(* ScanPage: the preview, the hidden canvas and the loads pending *)

\* the side of the photos chosen on the scan page
ScanSize == 4

\* the files the user can choose
ScanFiles == {"grooves", "dark"}

\* the pixels of a file's image
FileImage(file) == PixelBuffer(file, ScanSize, ScanSize)

\* the hidden canvas before anything is drawn: transparent black, wider than
\* high as the default 300 x 150 is
DefaultCanvas ==
    [data |-> [i \in 0..(4 * ScanSize * (ScanSize \div 2) - 1) |-> 0],
     width |-> ScanSize, height |-> ScanSize \div 2]

AnalysisFailed == "Analysis failed. Please try again."

\* the page as mounted ("none" for no file and no data URL).  readers: the files a FileReader is reading; images:
\* the files whose data URL an Image is loading (a second load of the same file
\* is not told from the first); analyzing: what the handleAnalyze in progress
\* closed over and read
InitScan ==
    /\ args = NoCall
    /\ ret = NoRet
    /\ HookUnmounted(Epoch)
    /\ CanvasUnmounted
    /\ viewer = Unmounted
    /\ resultsPage = Unmounted
    /\ scanPage = [mounted |-> TRUE, imageFile |-> "none", imagePreview |-> "none",
                   imageQualityOk |-> Null, error |-> Null, isAnalyzing |-> FALSE,
                   canvas |-> DefaultCanvas, readers |-> {}, images |-> {},
                   analyzing |-> Null]

\* handleFileSelect: the file input is on screen while there is no preview
handleFileSelect ==
    /\ scanPage.mounted
    /\ scanPage.imagePreview = "none"
    /\ \E file \in ScanFiles :
          scanPage' = [scanPage EXCEPT !.imageFile = file, !.error = Null,
                                      !.imageQualityOk = Null,
                                      !.readers = @ \cup {file}]
    /\ UNCHANGED <<pureVars, hookVars, canvasVars, viewer, resultsPage>>

\* reader.onload: the preview is set and an Image starts loading the data URL
ReaderOnload ==
    /\ scanPage.mounted
    /\ \E file \in scanPage.readers :
          scanPage' = [scanPage EXCEPT !.imagePreview = file,
                                      !.readers = @ \ {file},
                                      !.images = @ \cup {file}]
    /\ UNCHANGED <<pureVars, hookVars, canvasVars, viewer, resultsPage>>

\* img.onload: the canvas takes the image's size (at most 640) and its pixels,
\* and the quality of what getImageData returns is stored
ScanImgOnload ==
    /\ scanPage.mounted
    /\ \E file \in scanPage.images :
          scanPage' = [scanPage EXCEPT
                         !.canvas = FileImage(file),
                         !.imageQualityOk = assessImageQuality(FileImage(file)).acceptable,
                         !.images = @ \ {file}]
    /\ UNCHANGED <<pureVars, hookVars, canvasVars, viewer, resultsPage>>

\* handleRetake: the button is on screen with the preview
handleRetake ==
    /\ scanPage.mounted
    /\ scanPage.imagePreview # "none"
    /\ scanPage' = [scanPage EXCEPT !.imageFile = "none", !.imagePreview = "none",
                                    !.imageQualityOk = Null, !.error = Null]
    /\ UNCHANGED <<pureVars, hookVars, canvasVars, viewer, resultsPage>>

\* handleAnalyze up to its await: the button is on screen with the preview and
\* disabled while isAnalyzing
handleAnalyze ==
    /\ scanPage.mounted
    /\ scanPage.imagePreview # "none"
    /\ ~scanPage.isAnalyzing
    /\ scanPage' = [scanPage EXCEPT
                       !.isAnalyzing = TRUE, !.error = Null,
                       !.analyzing =
                           [imagePreview |-> scanPage.imagePreview,
                            imageData |-> scanPage.canvas,
                            treadEstimate |-> estimateTreadBucket(scanPage.canvas),
                            imageQuality |-> assessImageQuality(scanPage.canvas)]]
    /\ UNCHANGED <<pureVars, hookVars, canvasVars, viewer, resultsPage>>

\* the request to /api/analyze settles: the page navigates to the results, or
\* shows the error
AnalyzeSettles ==
    /\ scanPage.mounted
    /\ scanPage.isAnalyzing
    /\ \E ok \in BOOLEAN :
          scanPage' = IF ok THEN Unmounted
                      ELSE [scanPage EXCEPT !.error = AnalysisFailed,
                                            !.isAnalyzing = FALSE,
                                            !.analyzing = Null]
    /\ UNCHANGED <<pureVars, hookVars, canvasVars, viewer, resultsPage>>

NextScan ==
    \/ handleFileSelect
    \/ ReaderOnload
    \/ ScanImgOnload
    \/ handleRetake
    \/ handleAnalyze
    \/ AnalyzeSettles

SpecScan == InitScan /\ [][NextScan]_vars

-----------------------------------------------------------------------------
(* Properties of the weather risk escalator *)

\* the position of a risk level in the order Safe < Monitor < Plan Soon < Replace Now
RiskRank(r) ==
    CASE r = "Safe" -> 0 [] r = "Monitor" -> 1 [] r = "Plan Soon" -> 2
      [] r = "Replace Now" -> 3 [] OTHER -> -1

RiskAt(k) ==
    CASE k = 0 -> "Safe" [] k = 1 -> "Monitor" [] k = 2 -> "Plan Soon" [] OTHER -> "Replace Now"

\* C1: for every depth, base risk level and weather mode, the adjusted risk level
\* of calculateWeatherRisk is a level of the order, at or above the base level and
\* never beyond Replace Now.
C1_EscalationMonotonicBounded ==
    ret.fn = "calculateWeatherRisk" =>
        /\ ret.value.adjustedRiskLevel \in RiskLevels
        /\ RiskRank(ret.value.adjustedRiskLevel) >= RiskRank(args.baseRiskLevel)
        /\ RiskRank(ret.value.adjustedRiskLevel) <= 3

\* a two-step escalation that the end of the order cuts short
C1_Witness ==
    /\ ret.fn = "calculateWeatherRisk"
    /\ args.weatherMode = "snow"
    /\ args.depth32nds = R(5)
    /\ args.baseRiskLevel = "Plan Soon"
    /\ ret.value.adjustedRiskLevel = "Replace Now"

\* the reference of C2, written from the thresholds and step counts
C2_Reference(depth, base, mode) ==
    LET warning == IF mode = "wet" THEN 5 ELSE 6
        critical == IF mode = "wet" THEN 3 ELSE 4
        modifier == IF mode = "wet" THEN Rat(135, 100) ELSE Rat(170, 100)
        raised(k) == RiskAt(Min(3, RiskRank(base) + k))
    IN  IF mode = "dry" THEN [level |-> base, modifier |-> R(1)]
        ELSE IF depth.n <= critical * depth.d THEN [level |-> "Replace Now", modifier |-> modifier]
        ELSE IF depth.n <= warning * depth.d THEN [level |-> raised(2), modifier |-> modifier]
        ELSE IF depth.n <= (warning + 1) * depth.d THEN [level |-> raised(1), modifier |-> modifier]
        ELSE [level |-> base, modifier |-> modifier]

\* C2: calculateWeatherRisk equals the reference: dry is a pass-through with
\* modifier 1.0; in wet (5, 3, 1.35) and snow (6, 4, 1.70) a depth <= critical gives
\* Replace Now, <= warning raises the base by 2 steps, <= warning + 1 by 1 step,
\* anything deeper leaves it; (2, Plan Soon, wet) and (3, Plan Soon, snow) give
\* Replace Now and (6, Safe, dry) gives Safe with modifier 1.0.
C2_MatchesReference ==
    ret.fn = "calculateWeatherRisk" =>
        LET ref == C2_Reference(args.depth32nds, args.baseRiskLevel, args.weatherMode)
        IN  /\ ret.value.adjustedRiskLevel = ref.level
            /\ ret.value.riskModifier = ref.modifier
            /\ (args.depth32nds = R(2) /\ args.baseRiskLevel = "Plan Soon"
                  /\ args.weatherMode = "wet") => ret.value.adjustedRiskLevel = "Replace Now"
            /\ (args.depth32nds = R(3) /\ args.baseRiskLevel = "Plan Soon"
                  /\ args.weatherMode = "snow") => ret.value.adjustedRiskLevel = "Replace Now"
            /\ (args.depth32nds = R(6) /\ args.baseRiskLevel = "Safe"
                  /\ args.weatherMode = "dry") =>
                    /\ ret.value.adjustedRiskLevel = "Safe"
                    /\ ret.value.riskModifier = R(1)

\* a one-step escalation in the band just above the wet warning depth
C2_Witness ==
    /\ ret.fn = "calculateWeatherRisk"
    /\ args.weatherMode = "wet"
    /\ args.depth32nds = R(6)
    /\ args.baseRiskLevel = "Safe"
    /\ ret.value.adjustedRiskLevel = "Monitor"

-----------------------------------------------------------------------------
(* Properties of the health score *)

\* C8: for a depth d in [0,10], scoreFromDepth(d) is round(d/10*100) (the integer s
\* with s - 1/2 <= 10 d < s + 1/2) and lies in 0..100; it is 100 at 10, 0 at 0, 50 at
\* 5; a depth below 0 gives 0 and a depth above 10 gives 100.
C8_ScoreFromDepth ==
    ret.fn = "scoreFromDepth" =>
        LET d == args.depth32nds
            s == ret.value
        IN  /\ (d.n >= 0 /\ d.n <= 10 * d.d) =>
                  /\ (2 * s - 1) * d.d <= 20 * d.n
                  /\ 20 * d.n < (2 * s + 1) * d.d
                  /\ s \in 0..100
            /\ d.n < 0 => s = 0
            /\ d.n > 10 * d.d => s = 100
            /\ d = R(10) => s = 100
            /\ d = R(0) => s = 0
            /\ d = R(5) => s = 50

\* a depth whose score is a tie that rounds up: 0.25/32 scores 3
C8_Witness ==
    /\ ret.fn = "scoreFromDepth"
    /\ args.depth32nds = Rat(1, 4)
    /\ ret.value = 3

\* C9: computeHealthScore returns a score inside the score range of the given
\* bucket (NEW 85-100, HEALTHY 70-85, MODERATE 50-70, LOW 25-50, CRITICAL 0-25), the
\* risk level the thresholds give for that score (>= 70 Safe, >= 50 Monitor, > 25
\* Plan Soon, else Replace Now) and the bucket it was given; so NEW and HEALTHY
\* give Safe and CRITICAL gives Replace Now.
C9_ScoreInBucketRange ==
    ret.fn = "computeHealthScore" =>
        LET v == ret.value
            lo == CASE args.bucket = "NEW" -> 85 [] args.bucket = "HEALTHY" -> 70
                    [] args.bucket = "MODERATE" -> 50 [] args.bucket = "LOW" -> 25
                    [] OTHER -> 0
            hi == CASE args.bucket = "NEW" -> 100 [] args.bucket = "HEALTHY" -> 85
                    [] args.bucket = "MODERATE" -> 70 [] args.bucket = "LOW" -> 50
                    [] OTHER -> 25
        IN  /\ lo <= v.score /\ v.score <= hi
            /\ v.riskLevel = (IF v.score >= 70 THEN "Safe"
                              ELSE IF v.score >= 50 THEN "Monitor"
                              ELSE IF v.score > 25 THEN "Plan Soon"
                              ELSE "Replace Now")
            /\ v.bucket = args.bucket
            /\ args.bucket \in {"NEW", "HEALTHY"} => v.riskLevel = "Safe"
            /\ args.bucket = "CRITICAL" => v.riskLevel = "Replace Now"

\* a worn, old, unevenly worn tire classified NEW: the clamp lifts its score to 85
C9_Witness ==
    /\ ret.fn = "computeHealthScore"
    /\ args.bucket = "NEW"
    /\ args.depth32nds = R(1)
    /\ args.ageMonths = R(36)
    /\ ~args.evenWear
    /\ ret.value.score = 85
    /\ ret.value.riskLevel = "Safe"

-----------------------------------------------------------------------------
(* Properties of the wear model *)

\* C4: depthAtTime never returns a negative value, for every t in [0,1], current
\* depth, number of total months and monthly wear rate, those the time-travel
\* hook hands it included; so currentDepth of a time-travel state is >= 0.
C4_DepthNeverNegative ==
    ret.fn = "depthAtTime" => ret.value.n >= 0 /\ ret.value.d > 0

\* the test's case: 2/32 worn for 100 months at 1/32 a month stops at 0
C4_Witness ==
    /\ ret.fn = "depthAtTime"
    /\ args.currentDepth = R(2)
    /\ args.t = R(1)
    /\ args.totalMonths = R(100)
    /\ args.wearRatePerMonth = R(1)
    /\ ret.value = R(0)

\* C5: for every input of predictWearTimeline, depths below the thresholds and
\* the zero-wear case included, wetTractionDropDate <= legalMinimumDate and
\* legalMinimumDate = tireDeadDate.
C5_DatesOrdered ==
    ret.fn = "predictWearTimeline" =>
        LET w == ret.value.wetTractionDropDate
            l == ret.value.legalMinimumDate
        IN  /\ (w.y * 372 + w.m * 31 + w.d) <= (l.y * 372 + l.m * 31 + l.d)
            /\ l = ret.value.tireDeadDate

\* a new tire read on January 31: the wet-traction date falls strictly before the
\* legal-minimum date, and a day-of-month carry has happened
C5_Witness ==
    /\ ret.fn = "predictWearTimeline"
    /\ args.now = Epoch
    /\ args.depthRange = [min |-> 8, max |-> 10]
    /\ args.milesPerYear = 12000
    /\ ret.value.wetTractionDropDate # ret.value.legalMinimumDate
    /\ ret.value.legalMinimumDate.d # 31
    /\ ret.value.remainingMonths > 24

\* the inputs that differ from `a` by more miles per year, by aggressive in place
\* of normal driving, or by skipped in place of normal rotations
C6_Harder(a) ==
    {[a EXCEPT !.milesPerYear = mi] : mi \in {x \in MilesGrid : x > a.milesPerYear}}
        \cup (IF a.drivingStyle = "normal" THEN {[a EXCEPT !.drivingStyle = "aggressive"]}
              ELSE {})
        \cup (IF a.rotation = "normal" THEN {[a EXCEPT !.rotation = "skip-rotations"]}
              ELSE {})

C6_Months(a) == predictWearTimeline(WearInput(a), a.now).remainingMonths

C11_ZeroWearSentinel ==
    (ret.fn = "predictWearTimeline" /\ args.milesPerYear <= 0) =>
        LET v == ret.value
            f == v.tireDeadDate
        IN  /\ v.wetTractionDropDate = f
            /\ v.legalMinimumDate = f
            /\ f.y = args.now.y + 10
            /\ \/ f.m = args.now.m /\ f.d = args.now.d
               \/ /\ args.now.m = 1 /\ args.now.d = 29 /\ ~IsLeapYear(f.y)
                  /\ f.m = 2 /\ f.d = 1
            /\ v.remainingMonths = 120
            /\ v.confidenceBand.n * 5 = v.confidenceBand.d
            /\ v.currentDepth32nds.n * 2
                   = (args.depthRange.min + args.depthRange.max) * v.currentDepth32nds.d

\* a tire that is never driven, read on a leap day
C11_Witness ==
    /\ ret.fn = "predictWearTimeline"
    /\ args.milesPerYear = 0
    /\ args.now.m = 1
    /\ args.now.d = 29
    /\ args.depthRange = [min |-> 8, max |-> 10]
    /\ ret.value.remainingMonths = 120
    /\ ret.value.tireDeadDate = [y |-> 2038, m |-> 2, d |-> 1]

\* the modifier of an enum member, in twentieths
C12_Twentieths(key) ==
    CASE key = "cold" -> 21
      [] key = "hot" -> 23
      [] key = "skip-rotations" -> 23
      [] key = "aggressive" -> 22
      [] OTHER -> 20

\* round(max(0, (depth - 2) / ((milesPerYear / 12 / 1000) * rate))) in whole
\* numbers: depth = s / 2, milesPerYear = 500 k, rate = 0.14 f / 8000 with f the
\* product of the three modifiers in twentieths
C12_Months(s, k, f) ==
    IF s <= 4 THEN 0
    ELSE (2 * ((s - 4) * 4800000) + 7 * k * f) \div (2 * 7 * k * f)

\* C12: for every input with positive monthly wear and recognised enum members,
\* currentDepth32nds = (min + max) / 2, wearRatePer1000Miles = 0.14 x climate x
\* rotation x driving modifier, remainingMonths = round(max(0, (depth - 2) /
\* monthly loss)); a depth at or below 2/32 gives 0 months.
C12_PredictionFormula ==
    (/\ ret.fn = "predictWearTimeline"
     /\ args.milesPerYear > 0
     /\ args.climate \in Climates
     /\ args.rotation \in Rotations
     /\ args.drivingStyle \in DrivingStyles) =>
        LET v == ret.value
            s == args.depthRange.min + args.depthRange.max
            f == C12_Twentieths(args.climate) * C12_Twentieths(args.rotation)
                     * C12_Twentieths(args.drivingStyle)
        IN  /\ v.currentDepth32nds.n * 2 = s * v.currentDepth32nds.d
            /\ v.wearRatePer1000Miles = Rat(14 * f, 800000)
            /\ args.milesPerYear % 500 = 0
            /\ v.remainingMonths = C12_Months(s, args.milesPerYear \div 500, f)
            /\ (s <= 4 => v.remainingMonths = 0)

\* the scenario of the claim: range 8..10 at 12000 miles a year, all neutral
C12_Witness ==
    /\ ret.fn = "predictWearTimeline"
    /\ args.depthRange = [min |-> 8, max |-> 10]
    /\ args.milesPerYear = 12000
    /\ args.climate = "neutral"
    /\ args.rotation = "normal"
    /\ args.drivingStyle = "normal"
    /\ ret.value.currentDepth32nds = R(9)
    /\ ret.value.wearRatePer1000Miles = Rat(14, 100)
    /\ ret.value.remainingMonths = 50

\* the band of the claim, in thousandths
C13_Band1000(s, milesPerYear) ==
    Min(200, Max(150, 175 + (IF s < 6 THEN 25 ELSE 0)
                          + (IF milesPerYear > 18000 THEN 15 ELSE 0)
                          + (IF milesPerYear < 6000 THEN 10 ELSE 0)))

\* C13: every prediction has 0.15 <= confidenceBand <= 0.20; for positive wear
\* it is 0.175, plus 0.025 if depth < 3, plus 0.015 if milesPerYear > 18000,
\* plus 0.01 if milesPerYear < 6000, clamped to [0.15, 0.20].
C13_ConfidenceBand ==
    ret.fn = "predictWearTimeline" =>
        LET b == ret.value.confidenceBand
        IN  /\ 15 * b.d <= 100 * b.n
            /\ 100 * b.n <= 20 * b.d
            /\ args.milesPerYear > 0 =>
                   b.n * 1000 = b.d * C13_Band1000(args.depthRange.min + args.depthRange.max,
                                                   args.milesPerYear)

\* a worn tire that is driven little: 0.175 + 0.025 + 0.01 is clamped to 0.20
C13_Witness ==
    /\ ret.fn = "predictWearTimeline"
    /\ args.depthRange = [min |-> 2, max |-> 3]
    /\ args.milesPerYear = 2000
    /\ ret.value.confidenceBand = Rat(20, 100)

\* C15: given a climate, rotation or drivingStyle that is no enum member,
\* predictWearTimeline rejects the input: it returns no prediction.
C15_RejectsUnknownEnum ==
    (/\ ret.fn = "predictWearTimeline"
     /\ \/ args.climate \notin Climates
        \/ args.rotation \notin Rotations
        \/ args.drivingStyle \notin DrivingStyles) =>
        "remainingMonths" \notin DOMAIN ret.value

\* C17 as stated: for every positive whole number of base months m, dry gives m,
\* wet gives less than m and snow gives less than wet; no result is negative.
C17_StrictlyShortens ==
    ret.fn = "adjustRemainingMonths" =>
        LET m == args.baseMonths
        IN  /\ ret.value >= 0
            /\ (m.n >= 1 /\ args.weatherMode = "dry") => ret.value = m.n
            /\ (m.n >= 1 /\ args.weatherMode = "wet") => ret.value < m.n
            /\ (m.n >= 1 /\ args.weatherMode = "snow") =>
                   ret.value < adjustRemainingMonths(m, "wet")

\* C17 as amended: dry gives m; wet gives at most m, and less than m from 2
\* months on; snow gives at most what wet gives, and less from 7 months on; no
\* result is negative.
C17_NeverLengthens ==
    ret.fn = "adjustRemainingMonths" =>
        LET m == args.baseMonths
        IN  /\ ret.value >= 0
            /\ args.weatherMode = "dry" => ret.value = m.n
            /\ args.weatherMode = "wet" =>
                   ret.value <= m.n /\ (m.n >= 2 => ret.value < m.n)
            /\ args.weatherMode = "snow" =>
                   /\ ret.value <= adjustRemainingMonths(m, "wet")
                   /\ m.n >= 7 => ret.value < adjustRemainingMonths(m, "wet")

\* the test's case: 24 months are 14 in snow, fewer than the 18 in the wet
C17_Witness ==
    /\ ret.fn = "adjustRemainingMonths"
    /\ args.baseMonths = R(24)
    /\ args.weatherMode = "snow"
    /\ ret.value = 14
    /\ adjustRemainingMonths(R(24), "wet") = 18

-----------------------------------------------------------------------------
(* Properties of the tread estimator *)

\* C14: given a pixel buffer of zero area (width x height = 0), assessImageQuality
\* and estimateTreadBucket fail with InvalidImage: they return no ImageQuality
\* and no TreadEstimate.
C14_ZeroAreaFails ==
    (/\ ret.fn \in {"assessImageQuality", "estimateTreadBucket"}
     /\ args.imageData.width * args.imageData.height = 0) =>
        /\ "overall" \notin DOMAIN ret.value
        /\ "bucket" \notin DOMAIN ret.value

\* the bucket of the claim for a signal s
C16_Bucket(s) ==
    IF RLe(Rat(70, 100), s) THEN "NEW"
    ELSE IF RLe(Rat(50, 100), s) THEN "HEALTHY"
    ELSE IF RLe(Rat(35, 100), s) THEN "MODERATE"
    ELSE IF RLe(Rat(20, 100), s) THEN "LOW"
    ELSE "CRITICAL"

\* clamp(0.55 + 0.30 q + 0.05 |s - 0.5| 2, 0.55, 0.90)
C16_Confidence(q, s) ==
    LET raw == RAdd(RAdd(Rat(55, 100), RMul(Rat(30, 100), q)),
                    RMul(Rat(10, 100), RAbs(RSub(s, Rat(1, 2)))))
    IN  IF RLt(raw, Rat(55, 100)) THEN Rat(55, 100)
        ELSE IF RLt(Rat(90, 100), raw) THEN Rat(90, 100)
        ELSE raw

C16_InUnit(x) == ~IsNaN(x) /\ x.n >= 0 /\ x.n <= x.d

\* C16: for every signal s and quality score q in [0, 1] the bucket is NEW from
\* 0.70, HEALTHY from 0.50, MODERATE from 0.35, LOW from 0.20, else CRITICAL,
\* the depth range is the range of that bucket, and the confidence is
\* clamp(0.55 + 0.30 q + 0.05 |s - 0.5| 2, 0.55, 0.90), within [0.55, 0.90].
C16_BucketAndConfidence ==
    /\ ret.fn = "signalToBucket" => ret.value = C16_Bucket(args.signal)
    /\ ret.fn = "calculateConfidence" =>
           /\ ret.value = C16_Confidence(args.quality.overall, args.signal)
           /\ RLe(Rat(55, 100), ret.value)
           /\ RLe(ret.value, Rat(90, 100))
    /\ ret.fn = "estimateTreadBucket" =>
           LET s == TreadSignal(args.imageData)
               q == assessImageQuality(args.imageData).overall
           IN  (C16_InUnit(s) /\ C16_InUnit(q)) =>
                   /\ ret.value.bucket = C16_Bucket(s)
                   /\ ret.value.depthRange32nds = TREAD_BUCKETS[C16_Bucket(s)]
                   /\ ret.value.confidence = C16_Confidence(q, s)
                   /\ RLe(Rat(55, 100), ret.value.confidence)
                   /\ RLe(ret.value.confidence, Rat(90, 100))

\* a photo of deep grooves is estimated NEW, with a confidence inside the bounds
C16_Witness ==
    /\ ret.fn = "estimateTreadBucket"
    /\ args.imageData = PixelBuffer("grooves", EstimateSize, EstimateSize)
    /\ ret.value.bucket = "NEW"
    /\ ret.value.depthRange32nds = [min |-> 8, max |-> 10]
    /\ ~IsNaN(ret.value.confidence)
    /\ RLt(Rat(55, 100), ret.value.confidence)

-----------------------------------------------------------------------------
(* Properties of the explanation generator *)

\* C18: generateExplanation never rejects; without an OPENAI_API_KEY it returns
\* the template fallback and makes no network request; when the request fails,
\* answers with a status that is not OK, or holds a body that cannot be parsed,
\* it returns the template fallback; every explanation returned carries the
\* fixed disclaimer.
C18_NeverRejects ==
    ret.fn = "generateExplanation" =>
        LET fallback == generateFallbackExplanation(args.analysis, args.weatherMode)
        IN  /\ ret.state # "rejected"
            /\ ret.state = "fulfilled" =>
                   /\ ret.value.disclaimer = DISCLAIMER
                   /\ args.apiKey \in {"undefined", ""} =>
                          ret.requests = 0 /\ ret.value = fallback
                   /\ ret.response \in {"network error", "status 401", "status 429",
                                        "status 500", "not json", "no choices",
                                        "content not json", "content null"} =>
                          ret.value = fallback
            /\ ret.requests > 0 => args.apiKey \notin {"undefined", ""}

\* with a key, a request that is answered 500 ends in the template of the bucket
C18_Witness ==
    /\ ret.fn = "generateExplanation"
    /\ args.apiKey = "sk-key"
    /\ ret.state = "fulfilled"
    /\ ret.requests = 1
    /\ ret.response = "status 500"
    /\ args.analysis.treadEstimate.bucket = "LOW"
    /\ ret.value.recommendedAction = <<"actions", "LOW">>
    /\ ret.value.disclaimer = DISCLAIMER

-----------------------------------------------------------------------------
(* Properties of the time-travel hook *)

\* C3: with an analysis loaded, the time-travel state at t = 0 has currentDepth
\* equal to wearPrediction.currentDepth32nds under every weather mode and toggle
\* setting, and in dry weather its currentRisk is the risk the score thresholds
\* give for the score of that depth.
C3_IdempotentAtZero ==
    (analysis # Null /\ hook_state.t = R(0)) =>
        LET d == analysis.wearPrediction.currentDepth32nds
            score == IF d.n <= 0 THEN 0
                     ELSE IF d.n >= 10 * d.d THEN 100
                     ELSE (20 * d.n + d.d) \div (2 * d.d)
            base == IF score >= 70 THEN "Safe"
                    ELSE IF score >= 50 THEN "Monitor"
                    ELSE IF score > 25 THEN "Plan Soon"
                    ELSE "Replace Now"
        IN  /\ hook_state.currentDepth = d
            /\ hook_state.weatherMode = "dry" => hook_state.currentRisk = base

\* the slider is back at 0 with both toggles on in snow: the depth is the
\* analysis' own although the months and the rate are not
C3_Witness ==
    /\ analysis # Null
    /\ hook_state.t = R(0)
    /\ hook_state.weatherMode = "snow"
    /\ hook_state.skipRotations
    /\ hook_state.aggressiveDriving
    /\ hook_totalMonths > 0
    /\ hook_state.currentDepth = R(5)

\* a step that turns one of the two toggles on and changes nothing else
C7_TurnsOn ==
    /\ analysis # Null
    /\ analysis' = analysis
    /\ hook_weatherMode' = hook_weatherMode
    /\ \/ ~hook_skipRotations /\ hook_skipRotations'
          /\ hook_aggressiveDriving' = hook_aggressiveDriving
       \/ ~hook_aggressiveDriving /\ hook_aggressiveDriving'
          /\ hook_skipRotations' = hook_skipRotations

\* C7 as stated: turning on skipRotations or aggressiveDriving strictly decreases
\* totalMonths, whatever wearPrediction.remainingMonths is.
C7_StrictlyDecreases ==
    [][C7_TurnsOn => hook_totalMonths' < hook_totalMonths]_vars

\* C7 as amended: turning on skipRotations or aggressiveDriving never increases
\* totalMonths, and strictly decreases it when it was 14 months or more.
C7_NeverIncreases ==
    [][C7_TurnsOn =>
          /\ hook_totalMonths' <= hook_totalMonths
          /\ hook_totalMonths >= 14 => hook_totalMonths' < hook_totalMonths]_vars

\* skipRotations is on and has cut a 50-month timeline to 43 months
C7_Witness ==
    /\ analysis # Null
    /\ analysis.wearPrediction.remainingMonths = 50
    /\ hook_weatherMode = "dry"
    /\ hook_skipRotations
    /\ ~hook_aggressiveDriving
    /\ hook_totalMonths = 43

\* totalMonths, currentDepth, currentScore and currentRisk computed afresh from
\* an analysis, a slider position, a weather mode and the two toggles
C19_Fresh(an, tt, mode, skip, aggressive) ==
    LET months == TotalMonthsMemo(an, skip, aggressive, mode)
        rate == MonthlyWearRateMemo(an, AdjustedWearRateMemo(an, skip, aggressive))
        st == StateMemo(an, tt, months, rate, mode, skip, aggressive, today)
    IN  <<months, st.currentDepth, st.currentScore, st.currentRisk>>

\* what the hook holds of these
C19_Held ==
    <<hook_totalMonths, hook_state.currentDepth, hook_state.currentScore,
      hook_state.currentRisk>>

C19_Derived ==
    analysis # Null =>
        /\ RLe(R(0), hook_t) /\ RLe(hook_t, R(1))
        /\ hook_state.t = hook_t
        /\ C19_Held = C19_Fresh(analysis, hook_t, hook_weatherMode, hook_skipRotations,
                                hook_aggressiveDriving)

\* a step that flips one toggle: flipping it back gives what the hook held
C19_ToggleBack ==
    /\ (analysis # Null /\ hook_skipRotations' # hook_skipRotations) =>
           C19_Fresh(analysis', hook_t', hook_weatherMode', ~hook_skipRotations',
                     hook_aggressiveDriving') = C19_Held
    /\ (analysis # Null /\ hook_aggressiveDriving' # hook_aggressiveDriving) =>
           C19_Fresh(analysis', hook_t', hook_weatherMode', hook_skipRotations',
                     ~hook_aggressiveDriving') = C19_Held

\* C19: with an analysis loaded, after any sequence of setT, setWeatherMode and
\* toggle calls, t lies in [0, 1] and totalMonths, currentDepth, currentScore and
\* currentRisk equal a fresh computation from the current analysis, t, weather
\* mode and toggles; toggling the same flag twice restores the previous values.
C19_FullyDerived == []C19_Derived /\ [][C19_ToggleBack]_vars

\* both toggles on in snow with the slider half way, reached by four handlers
C19_Witness ==
    /\ analysis # Null
    /\ hook_t = Rat(1, 2)
    /\ hook_weatherMode = "snow"
    /\ hook_skipRotations
    /\ hook_aggressiveDriving
    /\ hook_totalMonths > 0
    /\ hook_state.currentDepth # analysis.wearPrediction.currentDepth32nds

\* half a month of wear at the mileage of the request, and the rounding of
\* depthAtTime to hundredths: what rounding remainingMonths to a whole number
\* can move the depth at t = 1 by
C23_Tolerance(body) ==
    RAdd(RMul(Rat(body.milesPerYear, 24000), analysis.wearPrediction.wearRatePer1000Miles),
         Rat(1, 100))

\* C23: with an analysis loaded, dry weather and both toggles off, the state at
\* t = 1 has currentDepth equal to the legal minimum 2/32, up to the rounding of
\* months to whole numbers, whenever the initial depth is at least 2/32, for
\* every milesPerYear the wear prediction was computed with.
C23_DeadAtLegalMinimum ==
    (/\ analysis # Null
     /\ hook_t = R(1)
     /\ hook_weatherMode = "dry"
     /\ ~hook_skipRotations
     /\ ~hook_aggressiveDriving
     /\ RLe(R(LEGAL_MINIMUM_DEPTH), analysis.wearPrediction.currentDepth32nds)) =>
        \A body \in AnalyzeBodies :
            (body.milesPerYear > 0 /\ analysis = POST(body, today)) =>
                RLe(RAbs(RSub(hook_state.currentDepth, R(LEGAL_MINIMUM_DEPTH))),
                    C23_Tolerance(body))

\* the currentRisk the hook shows under a weather mode, the analysis, the slider
\* and the toggles being those of the state
C24_RiskShown(mode) ==
    IF mode = hook_weatherMode THEN hook_state.currentRisk
    ELSE C19_Fresh(analysis, hook_t, mode, hook_skipRotations, hook_aggressiveDriving)[4]

\* C24: for any fixed analysis, slider position and toggle settings, the
\* currentRisk shown under wet or snow weather is never lower in the order
\* Safe < Monitor < Plan Soon < Replace Now than the one shown under dry
\* weather, and the one under snow is never lower than the one under wet.
C24_WeatherNeverLowersRisk ==
    analysis # Null =>
        /\ RiskRank(C24_RiskShown("dry")) <= RiskRank(C24_RiskShown("wet"))
        /\ RiskRank(C24_RiskShown("wet")) <= RiskRank(C24_RiskShown("snow"))

\* a step that moves the slider forward, or leaves it, and changes nothing else
C25_SliderForward ==
    /\ analysis # Null
    /\ analysis' = analysis
    /\ hook_weatherMode' = hook_weatherMode
    /\ hook_skipRotations' = hook_skipRotations
    /\ hook_aggressiveDriving' = hook_aggressiveDriving
    /\ RLe(hook_t, hook_t')

\* C25: for a fixed analysis, weather mode and toggle settings, moving the
\* slider forward never improves the tire: for t1 <= t2 the depth and the score
\* at t2 are at most those at t1 and the risk at t2 is at least as severe.
C25_SliderNeverImproves ==
    [][C25_SliderForward =>
          /\ RLe(hook_state.currentDepth', hook_state.currentDepth)
          /\ hook_state.currentScore' <= hook_state.currentScore
          /\ RiskRank(hook_state.currentRisk') >= RiskRank(hook_state.currentRisk)]_vars

\* the slider at its end in wet weather: the depth and the score are below, and
\* the risk above, those the analysis started with
C25_Witness ==
    /\ analysis # Null
    /\ hook_t = R(1)
    /\ hook_state.t = R(1)
    /\ hook_weatherMode = "wet"
    /\ RLt(hook_state.currentDepth, analysis.wearPrediction.currentDepth32nds)
    /\ hook_state.currentScore < scoreFromDepth(analysis.wearPrediction.currentDepth32nds)
    /\ RiskRank(hook_state.currentRisk) > RiskRank(analysis.healthScore.riskLevel)

\* C26: for every analysis the analyze endpoint can return, the time-travel
\* state at t = 0 in dry weather with both toggles off shows currentScore equal
\* to analysis.healthScore.score and currentRisk equal to
\* analysis.healthScore.riskLevel.
C26_AgreesWithHealthScore ==
    (/\ analysis # Null
     /\ hook_t = R(0)
     /\ hook_weatherMode = "dry"
     /\ ~hook_skipRotations
     /\ ~hook_aggressiveDriving) =>
        /\ hook_state.currentScore = analysis.healthScore.score
        /\ hook_state.currentRisk = analysis.healthScore.riskLevel

\* C26 amended: at t = 0 in dry weather with both toggles off currentRisk equals
\* analysis.healthScore.riskLevel; currentScore is the score of the depth alone,
\* round(10 * depth) within 0..100, which never exceeds analysis.healthScore.score.
C26_RiskAgrees ==
    (/\ analysis # Null
     /\ hook_t = R(0)
     /\ hook_weatherMode = "dry"
     /\ ~hook_skipRotations
     /\ ~hook_aggressiveDriving) =>
        /\ hook_state.currentRisk = analysis.healthScore.riskLevel
        /\ hook_state.currentScore
              = Max(0, Min(100, MathRound(RMul(R(10),
                                               analysis.wearPrediction.currentDepth32nds))))
        /\ hook_state.currentScore <= analysis.healthScore.score

\* a HEALTHY tire as loaded: the hook shows 70 where the analysis holds 76, and
\* both are Safe
C26_Witness ==
    /\ analysis # Null
    /\ hook_t = R(0)
    /\ hook_weatherMode = "dry"
    /\ ~hook_skipRotations
    /\ ~hook_aggressiveDriving
    /\ analysis.healthScore.bucket = "HEALTHY"
    /\ analysis.healthScore.score = 76
    /\ hook_state.currentScore = 70
    /\ hook_state.currentRisk = "Safe"

\* C27: with an analysis loaded, in every time-travel state, whenever
\* currentDepth is at or below the legal minimum of 2/32, currentRisk is
\* Replace Now.
C27_ReplaceAtLegalMinimum ==
    (analysis # Null /\ RLe(hook_state.currentDepth, R(LEGAL_MINIMUM_DEPTH))) =>
        hook_state.currentRisk = "Replace Now"

\* a tire that started above the legal minimum and is worn down to it exactly,
\* in dry weather, where no weather threshold escalates the risk
C27_Witness ==
    /\ analysis # Null
    /\ RLt(R(LEGAL_MINIMUM_DEPTH), analysis.wearPrediction.currentDepth32nds)
    /\ hook_weatherMode = "dry"
    /\ RLt(R(0), hook_t)
    /\ hook_state.t = hook_t
    /\ hook_state.currentDepth = R(LEGAL_MINIMUM_DEPTH)
    /\ hook_state.currentRisk = "Replace Now"

-----------------------------------------------------------------------------
(* Properties of the deterioration pipeline *)

\* C10: the canvas after a call of applyDeterioration depends only on the source
\* image and (t, unevenWear, width, height): after any sequence of earlier calls
\* on the same canvas, a second call with the same arguments included, it holds
\* the pixels that a single call with these arguments produces.
C10_DependsOnArgumentsOnly ==
    options # Null =>
        canvas = applyDeterioration(BlankCanvas(options.width, options.height),
                                    imageRef, options)

\* the stages the pipeline is said to apply at t (in thousandths), in order:
\* the stages on the pixels, and after them the aging overlay and its two parts
C20_PixelStages(t) ==
    IF t <= 10 THEN <<>>
    ELSE <<"applyContrastReduction">>
         \o (IF t > 120 THEN <<"applyGaussianSmoothing">> ELSE <<>>)
         \o (IF t > 180 THEN <<"applyGrooveErosion">> ELSE <<>>)
         \o (IF t > 250 THEN <<"applyEdgeSoftening">> ELSE <<>>)
         \o (IF t > 550 THEN <<"applyMicroCracks">> ELSE <<>>)

C20_OverlayStages(t) ==
    IF t <= 10 THEN <<>>
    ELSE <<"applyAgingOverlay">>
         \o (IF t > 300 THEN <<"vignette">> ELSE <<>>)
         \o (IF t > 600 THEN <<"tint">> ELSE <<>>)

\* the calls made, without the reads and writes of the canvas between the stages
C20_StagesOf(called) ==
    SelectSeq(called, LAMBDA c : c \notin {"drawImage", "getImageData", "putImageData"})

\* one stage, without its gate
C20_Stage(name, x, mask, t, width, height) ==
    CASE name = "applyContrastReduction" -> applyContrastReduction(x, mask, t, width, height)
      [] name = "applyGaussianSmoothing" -> applyGaussianSmoothing(x, mask, t, width, height)
      [] name = "applyGrooveErosion" -> applyGrooveErosion(x, mask, t, width, height)
      [] name = "applyEdgeSoftening" -> applyEdgeSoftening(x, mask, t, width, height)
      [] name = "applyMicroCracks" -> applyMicroCracks(x, mask, t, width, height)
      [] name = "applyAgingOverlay" -> WashOverlay(x, t, width, height)
      [] name = "vignette" -> VignetteFill(x, t, width, height)
      [] name = "tint" -> TintFill(x, t, width, height)

RECURSIVE C20_Run(_, _, _, _, _, _, _)
C20_Run(names, i, x, mask, t, width, height) ==
    IF i > Len(names) THEN x
    ELSE C20_Run(names, i + 1, C20_Stage(names[i], x, mask, t, width, height),
                 mask, t, width, height)

\* the listed stages run one after the other on the image as drawn
C20_Staged(originalImage, opts) ==
    LET drawn == drawImage(BlankCanvas(opts.width, opts.height), originalImage,
                           opts.width, opts.height)
        mask == createTreadMask(opts.width, opts.height, opts.unevenWear)
    IN  IF opts.t <= 10 THEN drawn
        ELSE C20_Run(C20_OverlayStages(opts.t), 1,
                     putImageData(
                         C20_Run(C20_PixelStages(opts.t), 1,
                                 getImageData(drawn, opts.width, opts.height),
                                 mask, opts.t, opts.width, opts.height),
                         opts.width, opts.height),
                     mask, opts.t, opts.width, opts.height)

-----------------------------------------------------------------------------
(* Properties of the per-pixel passes *)

\* the pixels the loops of the groove erosion visit and do not skip
C21_Eroded(mask, t) ==
    {k \in PixelsOf(CanvasSize, CanvasSize) :
        /\ 1 <= k % CanvasSize /\ k % CanvasSize < CanvasSize - 1
        /\ 1 <= k \div CanvasSize /\ k \div CanvasSize < CanvasSize - 1
        /\ (mask[k] * Min(1000, ((t - 180) * 14) \div 10)) \div 1000 >= 50}

\* C21: in the groove-erosion pass every interior pixel of effective mask
\* strength >= 0.05 whose luminance is below 110, or whose mean absolute
\* luminance difference to its 8 neighbours is above 15, is brightened by a
\* strictly positive lift, and no pixel is darkened.
C21_LiftsGroovesAndEdges ==
    (ret.fn = "applyGrooveErosion") =>
        LET mask == createTreadMask(CanvasSize, CanvasSize, args.unevenWear)
            strengthM == Min(1000, ((args.t - 180) * 14) \div 10)
        IN  /\ \A k \in C21_Eroded(mask, args.t) :
                  LET lum3 == Lum3(args.pixels, k)
                      sumDiff3 == SumAbsDiff3(args.pixels, lum3,
                                              Neighbours8(k, CanvasSize), 0)
                  IN  (lum3 < 330 \/ sumDiff3 > 360) =>
                          /\ GrooveLift30000((mask[k] * strengthM) \div 1000,
                                             lum3, sumDiff3) > 0
                          /\ Lum3(ret.value, k) > lum3
            /\ \A i \in BytesOf(CanvasSize, CanvasSize) : ret.value[i] >= args.pixels[i]

\* a pass computed pixel by pixel from the buffer as the pass found it:
\* At(k) is the buffer after the iteration at pixel k alone
C22_FromStart(At(_), start) == [i \in DOMAIN start |-> At(i \div 4)[i]]

\* the micro-crack loop over the pixels k .. rowEnd - 1 of one row: the state it
\* leaves, and whether every read of the pixels above and to the left of a
\* crack's origin found what the pass started with
RECURSIVE C22_FreshRow(_, _, _, _, _, _, _, _)
C22_FreshRow(st, start, mask, strengthM, k, rowEnd, width, height) ==
    IF k >= rowEnd THEN [st |-> st, fresh |-> TRUE]
    ELSE LET x == k % width
             y == k \div width
             above == ((y - 1) * width + x) * 4
             left == (y * width + (x - 1)) * 4
             reads == /\ x % 2 = 0 /\ y % 2 = 0
                      /\ (mask[k] * strengthM) \div 1000 >= 100
                      /\ RandU(nextRng(st.rng)) < 35 * strengthM
                      /\ y > 0 /\ x > 0
             next == MicroCracksAt(st.pixels, st.rng, mask, strengthM, k, width, height)
         IN  IF reads /\ (st.pixels[above] # start[above] \/ st.pixels[left] # start[left])
             THEN [st |-> st, fresh |-> FALSE]
             ELSE IF next = st
             THEN C22_FreshRow(st, start, mask, strengthM, k + 1, rowEnd, width, height)
             ELSE C22_FreshRow(next, start, mask, strengthM, k + 1, rowEnd, width, height)

RECURSIVE C22_FreshReads(_, _, _, _, _, _, _)
C22_FreshReads(st, start, mask, strengthM, k, width, height) ==
    IF k >= width * height THEN TRUE
    ELSE LET row == C22_FreshRow(st, start, mask, strengthM, k, k + width, width, height)
         IN  IF ~row.fresh THEN FALSE
             ELSE C22_FreshReads(row.st, start, mask, strengthM, k + width, width, height)

\* C22: within each per-pixel pass (contrast reduction, smoothing, groove
\* erosion, edge softening, micro-cracks) a read of a neighbouring pixel
\* observes the buffer as it was when the pass started, never a value written
\* earlier in the same pass.
C22_ReadsAtPassStart ==
    /\ ret.fn = "applyContrastReduction" =>
           ret.value = C22_FromStart(
               LAMBDA k : ContrastReductionAt(args.pixels, PassMask,
                                              (args.t * 45) \div 100, k),
               args.pixels)
    /\ ret.fn = "applyGaussianSmoothing" =>
           LET strengthM == Min(1000, ((args.t - 120) * 13) \div 10)
               radius == CeilDiv(strengthM * 2, 1000) + 1
           IN  ret.value = C22_FromStart(
                   LAMBDA k : GaussianSmoothingAt(args.pixels, args.pixels, PassMask,
                                                  GaussianWeights(radius), strengthM,
                                                  radius, k, args.size, args.size),
                   args.pixels)
    /\ ret.fn = "applyGrooveErosion" =>
           ret.value = C22_FromStart(
               LAMBDA k : GrooveErosionAt(args.pixels, args.pixels, PassMask,
                                          Min(1000, ((args.t - 180) * 14) \div 10), k,
                                          args.size, args.size),
               args.pixels)
    /\ ret.fn = "applyEdgeSoftening" =>
           ret.value = C22_FromStart(
               LAMBDA k : EdgeSofteningAt(args.pixels, args.pixels, PassMask,
                                          Min(1000, ((args.t - 250) * 15) \div 10), k,
                                          args.size, args.size),
               args.pixels)
    /\ ret.fn = "applyMicroCracks" =>
           C22_FreshReads([pixels |-> args.pixels, rng |-> seed], args.pixels, PassMask,
                          Min(1000, ((args.t - 550) * 22) \div 10), 0,
                          args.size, args.size)

-----------------------------------------------------------------------------
(* Properties of the pages *)

\* C28: in TireViewer, after any sequence of changes to t and unevenWear, once
\* every pending image-load callback and animation-frame callback has run, in
\* whatever order, the canvas shows the deterioration rendered for the most
\* recent (t, unevenWear), never one rendered for an earlier value.
C28_ShowsLatestProps ==
    (viewer.mounted /\ viewer.loads = {} /\ viewer.frame = Null) =>
        canvas = applyDeterioration(BlankCanvas(CanvasSize, CanvasSize),
                                    viewer.imageSrc, RenderOptions(viewer))

\* the requests to /api/explain still in flight
RequestsInFlight ==
    resultsPage.inFlight["dry"] + resultsPage.inFlight["wet"] + resultsPage.inFlight["snow"]

\* C29: on the results page, after any sequence of weather-mode changes, once
\* every /api/explain request in flight has completed, in whatever order, the
\* explanation displayed is the one requested for the current weather mode; and
\* explanationLoading is true whenever at least one request is still in flight.
\* The first part is stated for the runs in which every request was answered OK.
C29_ExplanationIsCurrent ==
    (resultsPage.mounted /\ resultsPage.analysis # Null) =>
        /\ (RequestsInFlight = 0 /\ ~resultsPage.failed) =>
               resultsPage.explanation =
                   ExplainResponse(resultsPage.analysis, resultsPage.weatherMode)
        /\ RequestsInFlight > 0 => resultsPage.explanationLoading

\* C30: on the scan page, whenever handleAnalyze runs, the pixels it reads from
\* the hidden canvas and classifies are those of the image shown in the preview,
\* for every interleaving of file selection, file-reader completion, image-load
\* completion, retake and the Analyze click.
C30_AnalyzesThePreview ==
    (scanPage.mounted /\ scanPage.analyzing # Null) =>
        scanPage.analyzing.imageData = FileImage(scanPage.analyzing.imagePreview)

=============================================================================
